---- MODULE Spec2Model ----
(***************************************************************************)
(* PixelShop (src/App.tsx): the edit history of the single-image editor,   *)
(* the asynchronous edit operations that commit into it, the batch         *)
(* pipeline with retry and cooperative cancellation, the persisted         *)
(* session record, and the tab, the two selections, the mask canvas and    *)
(* the prompt lists that the handlers read and reset.  The view (zoom and  *)
(* pan, as exact fractions), the pixels of the exported mask, the          *)
(* conversion of a selection to the pixels of the file and the size of the *)
(* canvas that is padded for an uncrop are computed as the code computes   *)
(* them; a suspended operation counts the object URLs it has created.      *)
(*                                                                         *)
(* React state is modelled by one variable per useState/useRef cell.  A    *)
(* synchronous event handler reads the state of the latest render, so it   *)
(* is one atomic action on the current state.  An async handler is split   *)
(* at its awaits: the part after an await runs with the values its closure *)
(* captured when the handler was invoked (addImageToHistory closes over    *)
(* history and historyIndex of that render), which the in-flight record    *)
(* keeps as capHistory / capIndex, with the isMasking of that render.      *)
(* Actions are enabled as the JSX wiring and the keyboard handler enable   *)
(* the handlers: a handler of a panel needs the tab of that panel.         *)
(***************************************************************************)
EXTENDS Integers, Sequences, FiniteSets, Bags, TLC

\* ---- bounds of the model ------------------------------------------------
MaxFiles == 3       \* File objects created in one behaviour (uploads + results)
MaxBatch == 2       \* files in one multi-file selection
MaxOps == 1         \* single-image operations in flight at once
MaxRetries == 1     \* batch retries in flight at once
MaxRuns == 2        \* handleBatchApply loops suspended at once
MaxEnc == 1         \* auto-save encodings in flight at once
MaxTyped == 22      \* distinct wordings typed into one prompt panel
MaxGestures == 3    \* zoom and pan gestures between two resets of the view

Null == 0           \* null / undefined File
Messages == {"quota exceeded", "request blocked"}   \* messages a failure of the external operation carries

VARIABLES
    history,        \* useState<File[]>            App.tsx:147
    historyIndex,   \* useState<number>            App.tsx:148
    batchImages,    \* useState<BatchImage[]>      App.tsx:152
    isCancelling,   \* isCancellingRef.current     App.tsx:153
    isLoading,      \* useState<boolean>           App.tsx:156
    error,          \* useState<string | null>     App.tsx:158 (<<>> is null)
    ops,            \* single-image operations in flight (suspended async handlers)
    run,            \* the suspended handleBatchApply loops (items, pos; cancelAt observes)
    retries,        \* suspended handleRetryImage calls (ids of their items)
    saved,          \* localStorage[AUTOSAVE_KEY]
    saveTimer,      \* the debounce timer of the auto-save effect is armed
    encoding,       \* auto-save callbacks suspended in Promise.all(fileToDataURL)
    nextFile,       \* next fresh File identity
    activeTab,      \* useState<Tab>               App.tsx:159
    completedEditCrop, \* useState<PixelCrop>      App.tsx:162 (TRUE: a selection of positive width)
    completedCrop,  \* useState<PixelCrop>         App.tsx:166 (TRUE: a selection of positive width)
    isMasking,      \* useState<boolean>           App.tsx:174
    maskDrawn,      \* the mask canvas (maskCanvasRef) holds a stroke
    imgPending,     \* the <img> of the current image has not fired load yet
    promptHistory,  \* the three usePromptHistory lists  App.tsx:200-202
    lastCall,       \* observer: the history operation the last step invoked
    callIndex,      \* observer: the cursor handleUndo / handleRedo / handleReset was called at
    undoFrom,       \* observer: the cursor before an undo that a redo followed
    lastFailure,    \* observer: the message the external operation rejected with in the last step
    resumed,        \* observer: the single-image operation that committed in the last step
    wasDrawn,       \* observer: the mask canvas held a stroke before the last step
    zoom,           \* useState(1)                 App.tsx:182 (a fraction)
    pan,            \* useState({ x: 0, y: 0 })    App.tsx:183 (a pair of fractions)
    gestures,       \* zoom and pan gestures since the view was last reset
    applied         \* observer: the computation the last step carried out, with its inputs

vars == <<history, historyIndex, batchImages, isCancelling, isLoading, error,
          ops, run, retries, saved, saveTimer, encoding, nextFile, activeTab,
          completedEditCrop, completedCrop, isMasking, maskDrawn, imgPending,
          promptHistory, lastCall, callIndex, undoFrom, lastFailure, resumed,
          wasDrawn, zoom, pan, gestures, applied>>

\* the tab, the selections, the mask, the image element and the prompt lists
view == <<activeTab, completedEditCrop, completedCrop, isMasking, maskDrawn,
          imgPending, promptHistory>>

Tabs == {"edit", "crop", "adjust", "filters", "uncrop"}

MaskTabs == {"adjust", "filters"}

NoSave == [present |-> FALSE, history |-> <<>>, historyIndex |-> -1]
NoPair == -2
NoOp == [kind |-> "none"]

\* ---- derived values of a render ------------------------------------------
currentImage ==
    IF historyIndex + 1 \in DOMAIN history THEN history[historyIndex + 1] ELSE Null

originalImage == IF history # <<>> THEN history[1] ELSE Null

\* mutant: the guard admits cursor 0
canUndoAtZero == historyIndex >= 0

canUndo == historyIndex > 0

canRedo == historyIndex < Len(history) - 1

\* setHistoryIndex(historyIndex - 1)
UndoTarget == historyIndex - 1

\* mutant: redo jumps to the newest snapshot
RedoToLast == Len(history) - 1

\* setHistoryIndex(historyIndex + 1)
RedoTarget == historyIndex + 1

isBatchMode == Len(batchImages) > 0

\* renderPage: which screen the editor page shows
StartScreenShown == currentImage = Null /\ ~isBatchMode

SingleEditorShown == currentImage # Null /\ ~isBatchMode

BatchEditorShown == isBatchMode

\* the mask canvas is rendered: isMasking && (activeTab === 'adjust' || 'filters')
CanvasMounted == SingleEditorShown /\ isMasking /\ activeTab \in MaskTabs

\* the canvas keeps its strokes while it stays rendered
KeepMask == maskDrawn' = (maskDrawn /\ CanvasMounted')

\* the <img> is keyed by the URL of the current image: another image is
\* another element, which has yet to load
ShowImage == imgPending' = (SingleEditorShown' /\ (imgPending \/ currentImage' # currentImage))

\* ---- numbers ------------------------------------------------------------------
\* a JavaScript number is kept as an exact fraction <<numerator, denominator>>
\* in lowest terms with a positive denominator
RECURSIVE GCD(_, _)
GCD(a, b) == IF b = 0 THEN a ELSE GCD(b, a % b)

Abs(n) == IF n < 0 THEN -n ELSE n

Frac(n, d) ==
    LET s == IF d < 0 THEN -1 ELSE 1
        g == GCD(Abs(n), Abs(d))
    IN  <<(s * n) \div g, (s * d) \div g>>

Zero == <<0, 1>>

One == <<1, 1>>

Plus(a, b) == Frac(a[1] * b[2] + b[1] * a[2], a[2] * b[2])

Minus(a, b) == Frac(a[1] * b[2] - b[1] * a[2], a[2] * b[2])

Times(a, b) == Frac(a[1] * b[1], a[2] * b[2])

Over(a, b) == Frac(a[1] * b[2], a[2] * b[1])

Less(a, b) == a[1] * b[2] < b[1] * a[2]

MathMin(a, b) == IF Less(b, a) THEN b ELSE a

MathMax(a, b) == IF Less(a, b) THEN b ELSE a

\* ---- zoom and pan ------------------------------------------------------------
NoApply == [name |-> "none"]

resetView ==
    /\ zoom' = One
    /\ pan' = <<Zero, Zero>>
    /\ gestures' = 0

\* the step is not a gesture on the view and calls no resetView
KeepView == UNCHANGED <<zoom, pan, gestures>>

\* ---- prompt history (usePromptHistory) ------------------------------------
MAX_HISTORY_SIZE == 20

\* a typed prompt: its words, whether it has capitals, whether blanks surround it
Prompt(text, caps, padded) == [text |-> text, caps |-> caps, padded |-> padded]

\* prompt.trim()
Trim(prompt) == [prompt EXCEPT !.padded = FALSE]

\* p.toLowerCase()
ToLowerCase(prompt) == [prompt EXCEPT !.caps = FALSE]

\* !prompt || !prompt.trim()
IsBlank(prompt) == prompt.text = ""

\* mutant: an earlier entry is dropped only when it is spelled the same
addPromptCaseSensitive(list, prompt) ==
    IF IsBlank(prompt) THEN list
    ELSE LET newPrompt == Trim(prompt)
             filteredHistory == SelectSeq(list, LAMBDA q : q # newPrompt)
             newHistory == <<newPrompt>> \o filteredHistory
         IN  SubSeq(newHistory, 1,
                    IF Len(newHistory) < MAX_HISTORY_SIZE THEN Len(newHistory)
                    ELSE MAX_HISTORY_SIZE)

\* addPrompt: the trimmed prompt goes first, an earlier entry equal to it up to
\* case is dropped, the list is cut to MAX_HISTORY_SIZE
addPrompt(list, prompt) ==
    IF IsBlank(prompt) THEN list
    ELSE LET newPrompt == Trim(prompt)
             filteredHistory ==
                SelectSeq(list, LAMBDA q : ToLowerCase(q) # ToLowerCase(newPrompt))
             newHistory == <<newPrompt>> \o filteredHistory
         IN  SubSeq(newHistory, 1,
                    IF Len(newHistory) < MAX_HISTORY_SIZE THEN Len(newHistory)
                    ELSE MAX_HISTORY_SIZE)

\* the prompt the user has typed into the panel (one wording in this model)
TypedPrompts == {Prompt("warmer light", FALSE, FALSE)}

NoPrompt == Prompt("", FALSE, FALSE)

\* addEditPrompt / addAdjustPrompt / addFilterPrompt
AddPromptTo(kind, prompt) ==
    promptHistory' =
       IF kind \in DOMAIN promptHistory
       THEN [promptHistory EXCEPT ![kind] = addPrompt(promptHistory[kind], prompt)]
       ELSE promptHistory

\* history.slice(0, historyIndex + 1)
Slice(h, i) == SubSeq(h, 1, IF i + 1 < Len(h) THEN i + 1 ELSE Len(h))

\* mutant: the cursor is set one past the new last index
addImageToHistoryPastEnd(h, i, f) ==
    LET newHistory == Append(Slice(h, i), f)
    IN  /\ history' = newHistory
        /\ historyIndex' = Len(newHistory)
        /\ saveTimer' = TRUE
        /\ completedCrop' = FALSE
        /\ completedEditCrop' = FALSE
        /\ resetView

\* mutant: the redo branch is kept, the cursor moves one step
addImageToHistoryNoTruncate(h, i, f) ==
    /\ history' = Append(h, f)
    /\ historyIndex' = i + 1
    /\ saveTimer' = TRUE
    /\ completedCrop' = FALSE
    /\ completedEditCrop' = FALSE
    /\ resetView

\* addImageToHistory, created in a render whose state was (h, i), called with f
\* (setHistory and setHistoryIndex of one call land in the same render)
addImageToHistory(h, i, f) ==
    LET newHistory == Append(Slice(h, i), f)
    IN  /\ history' = newHistory
        /\ historyIndex' = Len(newHistory) - 1
        /\ saveTimer' = TRUE
        /\ completedCrop' = FALSE
        /\ completedEditCrop' = FALSE
        /\ resetView

Init ==
    /\ history = <<>>
    /\ historyIndex = -1
    /\ batchImages = <<>>
    /\ isCancelling = FALSE
    /\ isLoading = FALSE
    /\ error = <<>>
    /\ ops = EmptyBag
    /\ run = EmptyBag
    /\ retries = EmptyBag
    /\ saved = NoSave
    /\ saveTimer = TRUE
    /\ encoding = EmptyBag
    /\ nextFile = 1
    /\ activeTab = "edit"
    /\ completedEditCrop = FALSE
    /\ completedCrop = FALSE
    /\ isMasking = FALSE
    /\ maskDrawn = FALSE
    /\ imgPending = FALSE
    /\ promptHistory = [edit |-> <<>>, adjust |-> <<>>, filter |-> <<>>]
    /\ lastCall = "none"
    /\ callIndex = NoPair
    /\ undoFrom = NoPair
    /\ lastFailure = "none"
    /\ resumed = NoOp
    /\ wasDrawn = FALSE
    /\ zoom = One
    /\ pan = <<Zero, Zero>>
    /\ gestures = 0
    /\ applied = NoApply

\* ---- uploads -------------------------------------------------------------
Observe(name) ==
    /\ lastCall' = name
    /\ callIndex' = NoPair
    /\ undoFrom' = NoPair
    /\ lastFailure' = "none"
    /\ resumed' = NoOp
    /\ wasDrawn' = maskDrawn
    /\ applied' = NoApply

\* observer: the step is the commit of the suspended operation op
ObserveCommit(op) ==
    /\ lastCall' = "addImageToHistory"
    /\ callIndex' = NoPair
    /\ undoFrom' = NoPair
    /\ lastFailure' = "none"
    /\ resumed' = op
    /\ wasDrawn' = maskDrawn
    /\ applied' = NoApply

\* observer: the step is the call of the handler name, and a is what the
\* handler found when it was called
ObserveCall(name, a) ==
    /\ lastCall' = name
    /\ callIndex' = NoPair
    /\ undoFrom' = NoPair
    /\ lastFailure' = "none"
    /\ resumed' = NoOp
    /\ wasDrawn' = maskDrawn
    /\ applied' = a

\* observer: the step carried out the computation a
ObserveApplied(a) ==
    /\ lastCall' = "none"
    /\ callIndex' = NoPair
    /\ undoFrom' = NoPair
    /\ lastFailure' = "none"
    /\ resumed' = NoOp
    /\ wasDrawn' = maskDrawn
    /\ applied' = a

\* observer: what a handler was called with: the prompt, whether there is an
\* image to work on, whether the selection it needs is there
Submission(handler, prompt, image, selected) ==
    [name |-> "submission", handler |-> handler, prompt |-> prompt,
     image |-> image, selected |-> selected]

\* observer: the step is the rejection of an external operation with message m
ObserveFailure(m) ==
    /\ lastCall' = "none"
    /\ callIndex' = NoPair
    /\ undoFrom' = NoPair
    /\ lastFailure' = m
    /\ resumed' = NoOp
    /\ wasDrawn' = maskDrawn
    /\ applied' = NoApply

\* handleFileSelect with one file -> handleImageUpload
HandleImageUpload ==
    /\ resetView
    /\ StartScreenShown
    /\ nextFile <= MaxFiles
    /\ history' = <<nextFile>>
    /\ historyIndex' = 0
    /\ batchImages' = <<>>
    /\ error' = <<>>
    /\ saveTimer' = TRUE
    /\ nextFile' = nextFile + 1
    /\ Observe("handleImageUpload")
    /\ UNCHANGED <<isCancelling, isLoading, ops, run, retries, saved, encoding>>
    /\ activeTab' = "edit"
    /\ completedCrop' = FALSE
    /\ completedEditCrop' = FALSE
    /\ UNCHANGED <<isMasking, promptHistory>>
    /\ ShowImage
    /\ KeepMask

NewBatchImage(f) ==
    [id |-> f, status |-> "pending", editedUrl |-> "none", error |-> "none"]

\* handleFileSelect with several files
HandleFileSelect ==
    /\ KeepView
    /\ StartScreenShown
    /\ \E n \in 2..MaxBatch :
          /\ nextFile + n - 1 <= MaxFiles
          /\ batchImages' = [k \in 1..n |-> NewBatchImage(nextFile + k - 1)]
          /\ nextFile' = nextFile + n
    /\ error' = <<>>
    /\ history' = <<>>
    /\ historyIndex' = -1
    /\ saveTimer' = TRUE
    /\ Observe("handleFileSelect")
    /\ UNCHANGED <<isCancelling, isLoading, ops, run, retries, saved, encoding>>
    /\ activeTab' = "adjust"
    /\ UNCHANGED <<completedEditCrop, completedCrop, isMasking, promptHistory>>
    /\ ShowImage
    /\ KeepMask

\* ---- history navigation --------------------------------------------------
\* handleUndo: Ctrl/Cmd+Z is live whenever the app is not in batch mode
HandleUndo ==
    /\ IF canUndo THEN resetView ELSE KeepView
    /\ ~isBatchMode
    /\ IF canUndo
         THEN /\ historyIndex' = UndoTarget
              /\ saveTimer' = TRUE
         ELSE UNCHANGED <<historyIndex, saveTimer>>
    /\ lastCall' = "handleUndo"
    /\ lastFailure' = "none"
    /\ resumed' = NoOp
    /\ wasDrawn' = maskDrawn
    /\ applied' = NoApply
    /\ callIndex' = historyIndex
    /\ undoFrom' = NoPair
    /\ UNCHANGED <<history, batchImages, isCancelling, isLoading, error, ops,
                   run, retries, saved, encoding, nextFile>>
    /\ completedEditCrop' = (completedEditCrop /\ ~(canUndo))
    /\ UNCHANGED <<activeTab, completedCrop, isMasking, maskDrawn, promptHistory>>
    /\ ShowImage

\* handleRedo: Ctrl/Cmd+Shift+Z or Ctrl+Y
HandleRedo ==
    /\ IF canRedo THEN resetView ELSE KeepView
    /\ ~isBatchMode
    /\ IF canRedo
         THEN /\ historyIndex' = RedoTarget
              /\ saveTimer' = TRUE
         ELSE UNCHANGED <<historyIndex, saveTimer>>
    /\ lastCall' = "handleRedo"
    /\ lastFailure' = "none"
    /\ resumed' = NoOp
    /\ wasDrawn' = maskDrawn
    /\ applied' = NoApply
    /\ callIndex' = historyIndex
    /\ undoFrom' = IF lastCall = "handleUndo" THEN callIndex ELSE NoPair
    /\ UNCHANGED <<history, batchImages, isCancelling, isLoading, error, ops,
                   run, retries, saved, encoding, nextFile>>
    /\ completedEditCrop' = (completedEditCrop /\ ~(canRedo))
    /\ UNCHANGED <<activeTab, completedCrop, isMasking, maskDrawn, promptHistory>>
    /\ ShowImage

\* mutant: reset also drops the edits
HandleResetDropsEdits ==
    /\ IF Len(history) > 0 THEN resetView ELSE KeepView
    /\ ~isBatchMode
    /\ IF Len(history) > 0
         THEN /\ historyIndex' = 0
              /\ history' = <<history[1]>>
              /\ error' = <<>>
              /\ saveTimer' = TRUE
         ELSE UNCHANGED <<history, historyIndex, error, saveTimer>>
    /\ lastCall' = "handleReset"
    /\ lastFailure' = "none"
    /\ resumed' = NoOp
    /\ wasDrawn' = maskDrawn
    /\ applied' = NoApply
    /\ callIndex' = historyIndex
    /\ undoFrom' = NoPair
    /\ UNCHANGED <<batchImages, isCancelling, isLoading, ops, run,
                   retries, saved, encoding, nextFile>>
    /\ completedEditCrop' = (completedEditCrop /\ ~(Len(history) > 0))
    /\ UNCHANGED <<activeTab, completedCrop, isMasking, maskDrawn, promptHistory>>
    /\ ShowImage

\* handleReset: Alt+R, or the Reset button
HandleReset ==
    /\ IF Len(history) > 0 THEN resetView ELSE KeepView
    /\ ~isBatchMode
    /\ IF Len(history) > 0
         THEN /\ historyIndex' = 0
              /\ error' = <<>>
              /\ saveTimer' = (saveTimer \/ historyIndex # 0)
         ELSE UNCHANGED <<historyIndex, error, saveTimer>>
    /\ lastCall' = "handleReset"
    /\ lastFailure' = "none"
    /\ resumed' = NoOp
    /\ wasDrawn' = maskDrawn
    /\ applied' = NoApply
    /\ callIndex' = historyIndex
    /\ undoFrom' = NoPair
    /\ UNCHANGED <<history, batchImages, isCancelling, isLoading, ops, run,
                   retries, saved, encoding, nextFile>>
    /\ completedEditCrop' = (completedEditCrop /\ ~(Len(history) > 0))
    /\ UNCHANGED <<activeTab, completedCrop, isMasking, maskDrawn, promptHistory>>
    /\ ShowImage

\* handleUploadNew: Alt+U, or the Upload New button of either editor
HandleUploadNew ==
    /\ resetView
    /\ history' = <<>>
    /\ historyIndex' = -1
    /\ batchImages' = <<>>
    /\ error' = <<>>
    /\ saved' = NoSave
    /\ saveTimer' = TRUE
    /\ Observe("handleUploadNew")
    /\ UNCHANGED <<isCancelling, isLoading, ops, run, retries, encoding, nextFile>>
    /\ completedEditCrop' = FALSE
    /\ UNCHANGED <<activeTab, completedCrop, isMasking, promptHistory>>
    /\ ShowImage
    /\ KeepMask

\* ---- single-image operations ---------------------------------------------
\* A suspended handler keeps the addImageToHistory of the render it was called
\* in.  That closure reads history and historyIndex only through
\* history.slice(0, historyIndex + 1), so the record keeps the slice (capHistory)
\* and the cursor (capIndex) it was cut at.
\* It also keeps the isMasking of that render (masked) and the prompt it was
\* called with, and counts the object URLs that the handler and the service
\* call created and have not revoked (urls): handleApplyUncrop creates one
\* for the <img> it measures.
NewOp(kind, stage, prompt) ==
    [kind |-> kind, stage |-> stage,
     capHistory |-> Slice(history, historyIndex), capIndex |-> historyIndex,
     masked |-> (kind \in {"filter", "adjust"} /\ isMasking), prompt |-> prompt,
     urls |-> IF kind = "uncrop" THEN 1 ELSE 0]

\* the tab whose panel, or whose Ctrl/Cmd+Enter branch, invokes the handler
TabOf(kind) ==
    CASE kind = "edit"   -> "edit"
      [] kind = "filter" -> "filters"
      [] kind = "adjust" -> "adjust"
      [] kind = "crop"   -> "crop"
      [] kind = "uncrop" -> "uncrop"

\* the suspended calls form a multiset: their order carries no meaning
Suspend(bag, x) == bag (+) SetToBag({x})

Resume(bag, x) == bag (-) SetToBag({x})

FailurePrefix(kind) ==
    CASE kind = "edit"   -> "Failed to generate the image. "
      [] kind = "filter" -> "Failed to apply the filter. "
      [] kind = "adjust" -> "Failed to apply the adjustment. "
      [] kind = "uncrop" -> "Failed to uncrop the image. "

\* an async handler up to its await of the external operation
StartOperation(kind) ==
    /\ SingleEditorShown
    /\ activeTab = TabOf(kind)
    /\ ~isLoading
    /\ BagCardinality(ops) < MaxOps
    /\ \E prompt \in TypedPrompts : ops' = Suspend(ops, NewOp(kind, "await", prompt))
    /\ isLoading' = TRUE
    /\ error' = <<>>
    /\ UNCHANGED <<history, historyIndex, batchImages, isCancelling, run, retries,
                   saved, saveTimer, encoding, nextFile>>
    /\ UNCHANGED view

\* getMaskAsFile: null when there is no canvas or nothing is drawn on it
MaskFileOrNull == IF CanvasMounted /\ maskDrawn THEN "mask.png" ELSE "null"

\* handleGenerate (Generate button, Ctrl/Cmd+Enter on the edit tab) with a
\* completed selection
HandleGenerate ==
    /\ KeepView
    /\ completedEditCrop
    /\ StartOperation("edit")
    /\ Observe("none")

\* handleApplyFilter on a single image, no mask or a drawn mask
HandleApplyFilter ==
    /\ KeepView
    /\ isMasking => MaskFileOrNull # "null"
    /\ StartOperation("filter")
    /\ Observe("handleApplyFilter")

\* handleApplyAdjustment on a single image, no mask or a drawn mask
HandleApplyAdjustment ==
    /\ KeepView
    /\ isMasking => MaskFileOrNull # "null"
    /\ StartOperation("adjust")
    /\ Observe("handleApplyAdjustment")

\* the handler behind the panel of a masking tab
ApplyHandlerOf(tab) ==
    IF tab = "filters" THEN "handleApplyFilter" ELSE "handleApplyAdjustment"

\* mutant: with masking on and no mask drawn the handler goes on to the
\* external operation
HandleApplyMaskIgnored ==
    /\ KeepView
    /\ isMasking
    /\ MaskFileOrNull = "null"
    /\ \E kind \in {"filter", "adjust"} : StartOperation(kind)
    /\ Observe(ApplyHandlerOf(activeTab))

\* handleApplyFilter / handleApplyAdjustment with masking on and no mask drawn:
\* getMaskAsFile resolves to null at once, the handler reports and returns
HandleApplyMaskMissing ==
    /\ KeepView
    /\ SingleEditorShown
    /\ activeTab \in MaskTabs
    /\ ~isLoading
    /\ isMasking
    /\ MaskFileOrNull = "null"
    /\ error' = <<"Masking is enabled, but no mask has been drawn. Please draw on the image or disable masking.">>
    /\ Observe(ApplyHandlerOf(activeTab))
    /\ UNCHANGED <<history, historyIndex, batchImages, isCancelling, isLoading, ops,
                   run, retries, saved, saveTimer, encoding, nextFile>>
    /\ UNCHANGED view

\* handleApplyFilter / handleApplyAdjustment without an image: Ctrl/Cmd+Enter on
\* the start screen, with the tab and the prompt that an editor left behind
HandleApplyNoImage ==
    /\ KeepView
    /\ StartScreenShown
    /\ nextFile > 1
    /\ activeTab \in MaskTabs
    /\ ~isLoading
    /\ error' = <<IF activeTab = "filters"
                    THEN "No image loaded to apply a filter to."
                    ELSE "No image loaded to apply an adjustment to.">>
    /\ \E prompt \in TypedPrompts :
          ObserveApplied(Submission(ApplyHandlerOf(activeTab), prompt, currentImage # Null, TRUE))
    /\ UNCHANGED <<history, historyIndex, batchImages, isCancelling, isLoading, ops,
                   run, retries, saved, saveTimer, encoding, nextFile>>
    /\ UNCHANGED view

\* handleApplyCrop without an image: Ctrl/Cmd+Enter on the start screen, with
\* the crop tab and the completedCrop that an editor left behind; imgRef.current
\* is null
HandleApplyCropNoImage ==
    /\ KeepView
    /\ StartScreenShown
    /\ activeTab = TabOf("crop")
    /\ completedCrop
    /\ ~isLoading
    /\ error' = <<"Please select an area to crop.">>
    /\ ObserveApplied(Submission("handleApplyCrop", NoPrompt, currentImage # Null, completedCrop))
    /\ UNCHANGED <<history, historyIndex, batchImages, isCancelling, isLoading, ops,
                   run, retries, saved, saveTimer, encoding, nextFile>>
    /\ UNCHANGED view

\* handleApplyCrop: synchronous, commits with the state of the current render
HandleApplyCrop ==
    /\ SingleEditorShown
    /\ activeTab = TabOf("crop")
    /\ completedCrop
    /\ ~isLoading
    /\ nextFile <= MaxFiles
    /\ addImageToHistory(history, historyIndex, nextFile)
    /\ nextFile' = nextFile + 1
    /\ Observe("addImageToHistory")
    /\ UNCHANGED <<batchImages, isCancelling, isLoading, error, ops, run, retries,
                   saved, encoding>>
    /\ UNCHANGED <<activeTab, isMasking, promptHistory>>
    /\ ShowImage
    /\ KeepMask

\* handleApplyUncrop up to img.src = ...: nothing is set before img.onload
HandleApplyUncrop ==
    /\ KeepView
    /\ SingleEditorShown
    /\ activeTab = TabOf("uncrop")
    /\ ~isLoading
    /\ BagCardinality(ops) < MaxOps
    /\ ops' = Suspend(ops, NewOp("uncrop", "imgload", NoPrompt))
    /\ Observe("none")
    /\ UNCHANGED <<history, historyIndex, batchImages, isCancelling, isLoading,
                   error, run, retries, saved, saveTimer, encoding, nextFile>>
    /\ UNCHANGED view

\* img.onload of handleApplyUncrop, up to the await of generateUncroppedImage,
\* which creates an object URL for the <img> it draws on the padded canvas
UncropOnLoad ==
    /\ KeepView
    /\ \E op \in BagToSet(ops) :
        /\ op.stage = "imgload"
        /\ ops' = Suspend(Resume(ops, op),
                          [op EXCEPT !.stage = "await", !.urls = op.urls + 1])
        /\ isLoading' = TRUE
        /\ error' = <<>>
        /\ Observe("none")
        /\ UNCHANGED <<history, historyIndex, batchImages, isCancelling, run,
                       retries, saved, saveTimer, encoding, nextFile>>
        /\ UNCHANGED view

\* img.onerror of handleApplyUncrop
UncropOnError ==
    /\ KeepView
    /\ \E op \in BagToSet(ops) :
        /\ op.stage = "imgload"
        /\ ops' = Resume(ops, op)
        /\ isLoading' = FALSE
        /\ error' = <<"Could not read image dimensions.">>
        /\ Observe("none")
        /\ UNCHANGED <<history, historyIndex, batchImages, isCancelling, run,
                       retries, saved, saveTimer, encoding, nextFile>>
        /\ UNCHANGED view

\* mutant: the commit leaves the mask as it is
OpSucceedKeepsMask ==
    \E op \in BagToSet(ops) :
        /\ op.stage = "await"
        /\ nextFile <= MaxFiles
        /\ addImageToHistory(op.capHistory, op.capIndex, nextFile)
        /\ nextFile' = nextFile + 1
        /\ ops' = Resume(ops, op)
        /\ isLoading' = FALSE
        /\ ObserveCommit(op)
        /\ UNCHANGED <<batchImages, isCancelling, error, run, retries, saved,
                       encoding>>
        /\ AddPromptTo(op.kind, op.prompt)
        /\ UNCHANGED <<activeTab, isMasking>>
        /\ ShowImage
        /\ KeepMask

\* the external operation resolved: dataURLtoFile, addImageToHistory, the prompt
\* list, handleClearMask if the handler was called with masking on, finally
OpSucceed ==
    \E op \in BagToSet(ops) :
        /\ op.stage = "await"
        /\ nextFile <= MaxFiles
        /\ addImageToHistory(op.capHistory, op.capIndex, nextFile)
        /\ nextFile' = nextFile + 1
        /\ ops' = Resume(ops, op)
        /\ isLoading' = FALSE
        /\ ObserveCommit(op)
        /\ UNCHANGED <<batchImages, isCancelling, error, run, retries, saved,
                       encoding>>
        /\ AddPromptTo(op.kind, op.prompt)
        /\ UNCHANGED <<activeTab, isMasking>>
        /\ ShowImage
        /\ maskDrawn' = (maskDrawn /\ CanvasMounted' /\ ~op.masked)

\* the external operation resolved after the user had started over and selected
\* the files of a batch: the same statements as in OpSucceed; the result is one
\* File more than the user has loaded
OpSucceedLate ==
    \E op \in BagToSet(ops) :
        /\ op.stage = "await"
        /\ Len(batchImages) > 0
        /\ nextFile <= MaxFiles + 1
        /\ addImageToHistory(op.capHistory, op.capIndex, nextFile)
        /\ nextFile' = nextFile + 1
        /\ ops' = Resume(ops, op)
        /\ isLoading' = FALSE
        /\ ObserveCommit(op)
        /\ UNCHANGED <<batchImages, isCancelling, error, run, retries, saved,
                       encoding>>
        /\ AddPromptTo(op.kind, op.prompt)
        /\ UNCHANGED <<activeTab, isMasking>>
        /\ ShowImage
        /\ maskDrawn' = (maskDrawn /\ CanvasMounted' /\ ~op.masked)

\* mutant: the rejection is caught and reported, the loading flag is left on
OpFailKeepsLoading ==
    /\ KeepView
    /\ \E op \in BagToSet(ops), m \in Messages :
        /\ op.stage = "await"
        /\ error' = <<FailurePrefix(op.kind), m>>
        /\ ops' = Resume(ops, op)
        /\ ObserveFailure(m)
        /\ UNCHANGED <<history, historyIndex, batchImages, isCancelling, isLoading,
                       run, retries, saved, saveTimer, encoding, nextFile>>
        /\ UNCHANGED view

\* the external operation rejected: catch, finally
OpFail ==
    /\ KeepView
    /\ \E op \in BagToSet(ops), m \in Messages :
        /\ op.stage = "await"
        /\ error' = <<FailurePrefix(op.kind), m>>
        /\ ops' = Resume(ops, op)
        /\ isLoading' = FALSE
        /\ ObserveFailure(m)
        /\ UNCHANGED <<history, historyIndex, batchImages, isCancelling, run,
                       retries, saved, saveTimer, encoding, nextFile>>
        /\ UNCHANGED view

\* ---- persisted session ----------------------------------------------------
\* fileToDataURL: FileReader.readAsDataURL, "data:<mime>;base64,<payload>"
fileToDataURL(file) == [mime |-> "image/png", payload |-> file]

\* dataURLtoFile: split at ',', parse the MIME type, atob the payload
dataURLtoFile(dataurl) == dataurl.payload

\* the debounced callback of the auto-save effect fires with an empty history
AutoSaveRemove ==
    /\ KeepView
    /\ saveTimer
    /\ (Len(history) = 0 \/ historyIndex < 0)
    /\ saved' = NoSave
    /\ saveTimer' = FALSE
    /\ Observe("none")
    /\ UNCHANGED <<history, historyIndex, batchImages, isCancelling, isLoading,
                   error, ops, run, retries, encoding, nextFile>>
    /\ UNCHANGED view

\* the debounced callback fires and suspends in Promise.all(fileToDataURL ...)
AutoSaveBegin ==
    /\ KeepView
    /\ saveTimer
    /\ ~(Len(history) = 0 \/ historyIndex < 0)
    /\ BagCardinality(encoding) < MaxEnc
    /\ encoding' = Suspend(encoding, [history |-> history, historyIndex |-> historyIndex])
    /\ saveTimer' = FALSE
    /\ Observe("none")
    /\ UNCHANGED <<history, historyIndex, batchImages, isCancelling, isLoading,
                   error, ops, run, retries, saved, nextFile>>
    /\ UNCHANGED view

\* the encoding resolved: localStorage.setItem(AUTOSAVE_KEY, ...)
AutoSaveWrite ==
    /\ KeepView
    /\ \E e \in BagToSet(encoding) :
        /\ saved' = [present |-> TRUE,
                     history |-> [k \in DOMAIN e.history |-> fileToDataURL(e.history[k])],
                     historyIndex |-> e.historyIndex]
        /\ encoding' = Resume(encoding, e)
        /\ Observe("none")
        /\ UNCHANGED <<history, historyIndex, batchImages, isCancelling, isLoading,
                       error, ops, run, retries, saveTimer, nextFile>>
        /\ UNCHANGED view

\* the encoding rejected, or localStorage.setItem threw because the storage is
\* full: the catch of the auto-save callback writes to the console
AutoSaveFail ==
    /\ KeepView
    /\ \E e \in BagToSet(encoding) :
        /\ encoding' = Resume(encoding, e)
        /\ ObserveFailure("QuotaExceededError")
        /\ UNCHANGED <<history, historyIndex, batchImages, isCancelling, isLoading,
                       error, ops, run, retries, saved, saveTimer, nextFile>>
        /\ UNCHANGED view

\* the page is loaded anew: every useState / useRef cell has its initial value
\* and nothing of the old page is in flight
Mounted ==
    /\ resetView
    /\ batchImages' = <<>>
    /\ isCancelling' = FALSE
    /\ isLoading' = FALSE
    /\ error' = <<>>
    /\ ops' = EmptyBag
    /\ run' = EmptyBag
    /\ retries' = EmptyBag
    /\ encoding' = EmptyBag
    /\ saveTimer' = TRUE
    /\ activeTab' = "edit"
    /\ completedEditCrop' = FALSE
    /\ completedCrop' = FALSE
    /\ isMasking' = FALSE
    /\ maskDrawn' = FALSE
    /\ imgPending' = (history' # <<>>)
    /\ UNCHANGED <<nextFile, promptHistory>>

\* mutant: the restored cursor is put on the newest snapshot
RestoreSessionAtNewest ==
    /\ saved.present
    /\ history' = [k \in DOMAIN saved.history |-> dataURLtoFile(saved.history[k])]
    /\ historyIndex' = Len(saved.history) - 1
    /\ Mounted
    /\ Observe("restoreSession")
    /\ UNCHANGED saved

\* restoreSession, the user confirms
RestoreSession ==
    /\ saved.present
    /\ history' = [k \in DOMAIN saved.history |-> dataURLtoFile(saved.history[k])]
    /\ historyIndex' = saved.historyIndex
    /\ Mounted
    /\ Observe("restoreSession")
    /\ UNCHANGED saved

\* restoreSession, the user declines
DeclineRestore ==
    /\ saved.present
    /\ saved' = NoSave
    /\ history' = <<>>
    /\ historyIndex' = -1
    /\ Mounted
    /\ Observe("declineRestore")

\* ---- batch pipeline -------------------------------------------------------
\* prev.map(img => img.id === id ? { ...img, status: 'processing' } : img)
MarkProcessing(items, id) ==
    [k \in DOMAIN items |->
        IF items[k].id = id THEN [items[k] EXCEPT !.status = "processing"]
        ELSE items[k]]

\* ... ? { ...img, editedUrl, status: 'done', error: undefined } : img
MarkDone(items, id) ==
    [k \in DOMAIN items |->
        IF items[k].id = id
        THEN [items[k] EXCEPT !.status = "done", !.editedUrl = "url", !.error = "none"]
        ELSE items[k]]

\* mutant: the caught message is replaced by the fallback text
MarkErrorUnknown(items, id, m) ==
    [k \in DOMAIN items |->
        IF items[k].id = id
        THEN [items[k] EXCEPT !.status = "error", !.error = "An unknown error occurred."]
        ELSE items[k]]

\* ... ? { ...img, status: 'error', error: message } : img
MarkError(items, id, m) ==
    [k \in DOMAIN items |->
        IF items[k].id = id THEN [items[k] EXCEPT !.status = "error", !.error = m]
        ELSE items[k]]

\* mutant: the selected items are taken last to first
imagesToProcessReversed ==
    LET sel == SelectSeq(batchImages, LAMBDA img : img.status \in {"pending", "error"})
    IN  [k \in DOMAIN sel |-> sel[Len(sel) + 1 - k].id]

\* batchImages.filter(img => img.status === 'pending' || img.status === 'error')
imagesToProcess ==
    LET sel == SelectSeq(batchImages, LAMBDA img : img.status \in {"pending", "error"})
    IN  [k \in DOMAIN sel |-> sel[k].id]

\* the top of the for loop: the cancellation check before an item is started
LoopBreaks(r, flag) == r.pos >= Len(r.items) \/ flag

\* mutant: the statements after the loop leave the cancellation flag as it is
ContinueRunLeavesFlag(r, items) ==
    IF LoopBreaks(r, isCancelling)
    THEN /\ batchImages' = items
         /\ isLoading' = FALSE
         /\ UNCHANGED isCancelling
         /\ run' = Resume(run, r)
    ELSE /\ batchImages' = MarkProcessing(items, r.items[r.pos + 1])
         /\ run' = Suspend(Resume(run, r), [r EXCEPT !.pos = r.pos + 1])
         /\ UNCHANGED <<isLoading, isCancelling>>

\* The loop of handleBatchApply from the completion of the awaited item to its
\* next await, or to the statements after the loop.  items is batchImages
\* with the completed item recorded.
ContinueRun(r, items) ==
    IF LoopBreaks(r, isCancelling)
    THEN /\ batchImages' = items
         /\ isLoading' = FALSE
         /\ isCancelling' = FALSE
         /\ run' = Resume(run, r)
    ELSE /\ batchImages' = MarkProcessing(items, r.items[r.pos + 1])
         /\ run' = Suspend(Resume(run, r), [r EXCEPT !.pos = r.pos + 1])
         /\ UNCHANGED <<isLoading, isCancelling>>

\* the type the batch panel of the active tab passes to handleBatchApply
BatchType == IF activeTab = "filters" THEN "filter" ELSE "adjust"

\* mutant: the prompt is recorded and the flags are reset before the selection
\* is looked at
HandleBatchApplyNothingAfterSetup ==
    /\ KeepView
    /\ BatchEditorShown
    /\ activeTab \in MaskTabs
    /\ ~isLoading
    /\ Len(imagesToProcess) = 0
    /\ error' = <<>>
    /\ isCancelling' = FALSE
    /\ \E prompt \in TypedPrompts : AddPromptTo(BatchType, prompt)
    /\ Observe("handleBatchApply")
    /\ UNCHANGED <<history, historyIndex, batchImages, isLoading, ops, run, retries,
                   saved, saveTimer, encoding, nextFile, activeTab, completedEditCrop,
                   completedCrop, isMasking, maskDrawn, imgPending>>

\* handleBatchApply (Apply button of the batch panel, Ctrl/Cmd+Enter) with
\* nothing pending or failed
HandleBatchApplyNothing ==
    /\ KeepView
    /\ BatchEditorShown
    /\ activeTab \in MaskTabs
    /\ ~isLoading
    /\ Len(imagesToProcess) = 0
    /\ Observe("handleBatchApply")
    /\ UNCHANGED <<history, historyIndex, batchImages, isCancelling, isLoading,
                   error, ops, run, retries, saved, saveTimer, encoding, nextFile>>
    /\ UNCHANGED view

\* mutant: the run starts without lowering the cancellation flag, and its loop
\* looks at the flag before the first item
HandleBatchApplyKeepsFlag ==
    /\ KeepView
    /\ BatchEditorShown
    /\ activeTab \in MaskTabs
    /\ ~isLoading
    /\ Len(imagesToProcess) > 0
    /\ BagCardinality(run) < MaxRuns
    /\ error' = <<>>
    /\ UNCHANGED isCancelling
    /\ IF isCancelling
         THEN /\ isLoading' = FALSE
              /\ UNCHANGED <<batchImages, run>>
         ELSE /\ isLoading' = TRUE
              /\ batchImages' = MarkProcessing(batchImages, imagesToProcess[1])
              /\ run' = Suspend(run, [items |-> imagesToProcess, pos |-> 1,
                                     cancelAt |-> 0])
    /\ ObserveCall("handleBatchApply",
                   [name |-> "handleBatchApply", isCancelling |-> isCancelling])
    /\ UNCHANGED <<history, historyIndex, ops, retries, saved, saveTimer, encoding,
                   nextFile>>
    /\ \E prompt \in TypedPrompts : AddPromptTo(BatchType, prompt)
    /\ UNCHANGED <<activeTab, completedEditCrop, completedCrop, isMasking, maskDrawn,
                   imgPending>>

\* handleBatchApply up to the await of the first selected item
HandleBatchApply ==
    /\ KeepView
    /\ BatchEditorShown
    /\ activeTab \in MaskTabs
    /\ ~isLoading
    /\ Len(imagesToProcess) > 0
    /\ BagCardinality(run) < MaxRuns
    /\ isLoading' = TRUE
    /\ error' = <<>>
    /\ isCancelling' = FALSE
    /\ batchImages' = MarkProcessing(batchImages, imagesToProcess[1])
    /\ run' = Suspend(run, [items |-> imagesToProcess, pos |-> 1, cancelAt |-> 0])
    /\ ObserveCall("handleBatchApply",
                   [name |-> "handleBatchApply", isCancelling |-> isCancelling])
    /\ UNCHANGED <<history, historyIndex, ops, retries, saved, saveTimer, encoding,
                   nextFile>>
    /\ \E prompt \in TypedPrompts : AddPromptTo(BatchType, prompt)
    /\ UNCHANGED <<activeTab, completedEditCrop, completedCrop, isMasking, maskDrawn,
                   imgPending>>

\* mutant: the result of an item is also committed to the edit history
BatchItemDoneCommits ==
    \E r \in BagToSet(run) :
        /\ ContinueRun(r, MarkDone(batchImages, r.items[r.pos]))
        /\ addImageToHistory(history, historyIndex, r.items[r.pos])
        /\ Observe("none")
        /\ UNCHANGED <<error, ops, retries, saved, encoding, nextFile>>
        /\ UNCHANGED <<activeTab, isMasking, maskDrawn, imgPending, promptHistory>>

\* the awaited item of a run resolved
BatchItemDone ==
    /\ KeepView
    /\ \E r \in BagToSet(run) :
        /\ ContinueRun(r, MarkDone(batchImages, r.items[r.pos]))
        /\ Observe("none")
        /\ UNCHANGED <<history, historyIndex, error, ops, retries, saved, saveTimer,
                       encoding, nextFile>>
        /\ UNCHANGED view

\* mutant: a rejected item ends the run
BatchItemFailAborts ==
    /\ KeepView
    /\ \E r \in BagToSet(run), m \in Messages :
        /\ batchImages' = MarkError(batchImages, r.items[r.pos], m)
        /\ isLoading' = FALSE
        /\ isCancelling' = FALSE
        /\ run' = Resume(run, r)
        /\ ObserveFailure(m)
        /\ UNCHANGED <<history, historyIndex, error, ops, retries, saved, saveTimer,
                       encoding, nextFile>>
        /\ UNCHANGED view

\* the awaited item of a run rejected
BatchItemFail ==
    /\ KeepView
    /\ \E r \in BagToSet(run), m \in Messages :
        /\ ContinueRun(r, MarkError(batchImages, r.items[r.pos], m))
        /\ ObserveFailure(m)
        /\ UNCHANGED <<history, historyIndex, error, ops, retries, saved, saveTimer,
                       encoding, nextFile>>
        /\ UNCHANGED view

\* mutant: the retry goes ahead with the blank prompt
HandleRetryBlankPromptSent ==
    /\ KeepView
    /\ BatchEditorShown
    /\ activeTab \in MaskTabs
    /\ BagCardinality(retries) < MaxRetries
    /\ \E k \in DOMAIN batchImages :
          /\ batchImages[k].status = "error"
          /\ batchImages' =
                [j \in DOMAIN batchImages |->
                    IF batchImages[j].id = batchImages[k].id
                    THEN [batchImages[j] EXCEPT !.status = "processing", !.error = "none"]
                    ELSE batchImages[j]]
          /\ retries' = Suspend(retries, batchImages[k].id)
    /\ error' = <<>>
    /\ ObserveApplied(Submission("handleRetryImage", NoPrompt, TRUE, TRUE))
    /\ UNCHANGED <<history, historyIndex, isCancelling, isLoading, ops, run, saved,
                   saveTimer, encoding, nextFile>>
    /\ UNCHANGED view

\* handleRetryImage (Retry button of a failed card) with a blank prompt
HandleRetryNoPrompt ==
    /\ KeepView
    /\ BatchEditorShown
    /\ \E k \in DOMAIN batchImages : batchImages[k].status = "error"
    /\ activeTab \in MaskTabs
    /\ error' = <<"Please enter a prompt for the batch ", BatchType, " to retry.">>
    /\ ObserveApplied(Submission("handleRetryImage", NoPrompt, TRUE, TRUE))
    /\ UNCHANGED <<history, historyIndex, batchImages, isCancelling, isLoading,
                   ops, run, retries, saved, saveTimer, encoding, nextFile>>
    /\ UNCHANGED view

\* mutant: the Retry button is offered on every card
HandleRetryImageAnyStatus ==
    /\ KeepView
    /\ BatchEditorShown
    /\ activeTab \in MaskTabs
    /\ BagCardinality(retries) < MaxRetries
    /\ \E k \in DOMAIN batchImages :
          /\ batchImages' =
                [j \in DOMAIN batchImages |->
                    IF batchImages[j].id = batchImages[k].id
                    THEN [batchImages[j] EXCEPT !.status = "processing", !.error = "none"]
                    ELSE batchImages[j]]
          /\ retries' = Suspend(retries, batchImages[k].id)
    /\ error' = <<>>
    /\ Observe("none")
    /\ UNCHANGED <<history, historyIndex, isCancelling, isLoading, ops, run, saved,
                   saveTimer, encoding, nextFile>>
    /\ UNCHANGED view

\* handleRetryImage up to its await; the Retry button is rendered on the
\* cards whose status is error
HandleRetryImage ==
    /\ KeepView
    /\ BatchEditorShown
    /\ activeTab \in MaskTabs
    /\ BagCardinality(retries) < MaxRetries
    /\ \E k \in DOMAIN batchImages :
          /\ batchImages[k].status = "error"
          /\ batchImages' =
                [j \in DOMAIN batchImages |->
                    IF batchImages[j].id = batchImages[k].id
                    THEN [batchImages[j] EXCEPT !.status = "processing", !.error = "none"]
                    ELSE batchImages[j]]
          /\ retries' = Suspend(retries, batchImages[k].id)
    /\ error' = <<>>
    /\ Observe("none")
    /\ UNCHANGED <<history, historyIndex, isCancelling, isLoading, ops, run, saved,
                   saveTimer, encoding, nextFile>>
    /\ UNCHANGED view

\* the external operation of a retry resolved
RetryDone ==
    /\ KeepView
    /\ \E id \in BagToSet(retries) :
        /\ batchImages' = MarkDone(batchImages, id)
        /\ retries' = Resume(retries, id)
        /\ Observe("none")
        /\ UNCHANGED <<history, historyIndex, isCancelling, isLoading, error, ops,
                       run, saved, saveTimer, encoding, nextFile>>
        /\ UNCHANGED view

\* the external operation of a retry rejected
RetryFail ==
    /\ KeepView
    /\ \E id \in BagToSet(retries), m \in Messages :
        /\ batchImages' = MarkError(batchImages, id, m)
        /\ retries' = Resume(retries, id)
        /\ ObserveFailure(m)
        /\ UNCHANGED <<history, historyIndex, isCancelling, isLoading, error, ops,
                       run, saved, saveTimer, encoding, nextFile>>
        /\ UNCHANGED view

\* observer: each suspended run notes the item it was awaiting when
\* cancellation was first requested (cancelAt, 0 while none was)
NoteCancel(r) == IF r.cancelAt = 0 THEN [r EXCEPT !.cancelAt = r.pos] ELSE r

NoteCancelAll(runs) ==
    LET done == {NoteCancel(r) : r \in BagToSet(runs)}
        Count(n) == LET from == {r \in BagToSet(runs) : NoteCancel(r) = n}
                        sum[S \in SUBSET from] ==
                            IF S = {} THEN 0
                            ELSE LET x == CHOOSE x \in S : TRUE
                                 IN  runs[x] + sum[S \ {x}]
                    IN  sum[from]
    IN  [n \in done |-> Count(n)]

\* handleCancelBatch, the user confirms (the Cancel button shows while isLoading)
HandleCancelBatch ==
    /\ KeepView
    /\ BatchEditorShown
    /\ isLoading
    /\ isCancelling' = TRUE
    /\ run' = NoteCancelAll(run)
    /\ Observe("none")
    /\ UNCHANGED <<history, historyIndex, batchImages, isLoading, error, ops,
                   retries, saved, saveTimer, encoding, nextFile>>
    /\ UNCHANGED view

\* ---- tabs, selections and the mask ------------------------------------------
\* mutant: the tab changes and masking stays as it was
HandleTabChangeKeepsMask ==
    /\ KeepView
    /\ \E tab \in Tabs :
        /\ IF isBatchMode THEN tab \in MaskTabs ELSE TRUE
        /\ activeTab' = tab
        /\ isMasking' = isMasking
        /\ maskDrawn' = maskDrawn
        /\ Observe("handleTabChange")
        /\ UNCHANGED <<history, historyIndex, batchImages, isCancelling, isLoading,
                       error, ops, run, retries, saved, saveTimer, encoding, nextFile,
                       completedEditCrop, completedCrop, imgPending, promptHistory>>

\* handleTabChange: the tab buttons of either editor, Alt+1..5 outside batch mode
HandleTabChange ==
    /\ KeepView
    /\ \E tab \in Tabs :
        /\ IF isBatchMode THEN tab \in MaskTabs ELSE TRUE
        /\ activeTab' = tab
        /\ isMasking' = (isMasking /\ tab \in MaskTabs)
        /\ maskDrawn' = (maskDrawn /\ tab \in MaskTabs)
        /\ Observe("handleTabChange")
        /\ UNCHANGED <<history, historyIndex, batchImages, isCancelling, isLoading,
                       error, ops, run, retries, saved, saveTimer, encoding, nextFile,
                       completedEditCrop, completedCrop, imgPending, promptHistory>>

\* handleTryPrompt on the inspiration page with an image or a batch loaded, and
\* the promptToTry effect that follows it: setActiveTab(type), not
\* handleTabChange
PromptToTry ==
    /\ KeepView
    /\ (currentImage # Null \/ isBatchMode)
    /\ \E type \in MaskTabs : activeTab' = type
    /\ Observe("none")
    /\ UNCHANGED <<history, historyIndex, batchImages, isCancelling, isLoading,
                   error, ops, run, retries, saved, saveTimer, encoding, nextFile,
                   completedEditCrop, completedCrop, isMasking, imgPending,
                   promptHistory>>
    /\ KeepMask

\* onComplete of the ReactCrop of the edit tab
EditCropComplete ==
    /\ KeepView
    /\ SingleEditorShown
    /\ activeTab = "edit"
    /\ \E selected \in BOOLEAN : completedEditCrop' = selected
    /\ Observe("none")
    /\ UNCHANGED <<history, historyIndex, batchImages, isCancelling, isLoading,
                   error, ops, run, retries, saved, saveTimer, encoding, nextFile,
                   activeTab, completedCrop, isMasking, maskDrawn, imgPending,
                   promptHistory>>

\* onComplete of the ReactCrop of the crop tab
CropComplete ==
    /\ KeepView
    /\ SingleEditorShown
    /\ activeTab = "crop"
    /\ \E selected \in BOOLEAN : completedCrop' = selected
    /\ Observe("none")
    /\ UNCHANGED <<history, historyIndex, batchImages, isCancelling, isLoading,
                   error, ops, run, retries, saved, saveTimer, encoding, nextFile,
                   activeTab, completedEditCrop, isMasking, maskDrawn, imgPending,
                   promptHistory>>

\* handleToggleMasking: the switch of the adjust and of the filters panel; a
\* canvas that appears is blank, one that goes is cleared first
HandleToggleMasking ==
    /\ KeepView
    /\ SingleEditorShown
    /\ activeTab \in MaskTabs
    /\ isMasking' = ~isMasking
    /\ maskDrawn' = FALSE
    /\ Observe("handleToggleMasking")
    /\ UNCHANGED <<history, historyIndex, batchImages, isCancelling, isLoading,
                   error, ops, run, retries, saved, saveTimer, encoding, nextFile,
                   activeTab, completedEditCrop, completedCrop, imgPending,
                   promptHistory>>

\* handleMaskMouseDown / handleMaskMouseMove on the viewport: drawLine, whose
\* line may lie outside the pixels of the canvas
MaskStroke ==
    /\ KeepView
    /\ isMasking
    /\ CanvasMounted
    /\ \E lands \in BOOLEAN : maskDrawn' = (maskDrawn \/ lands)
    /\ Observe("none")
    /\ UNCHANGED <<history, historyIndex, batchImages, isCancelling, isLoading,
                   error, ops, run, retries, saved, saveTimer, encoding, nextFile,
                   activeTab, completedEditCrop, completedCrop, isMasking, imgPending,
                   promptHistory>>

\* handleClearMask from the Clear Mask button of the panel
HandleClearMask ==
    /\ KeepView
    /\ SingleEditorShown
    /\ activeTab \in MaskTabs
    /\ isMasking
    /\ maskDrawn' = FALSE
    /\ Observe("none")
    /\ UNCHANGED <<history, historyIndex, batchImages, isCancelling, isLoading,
                   error, ops, run, retries, saved, saveTimer, encoding, nextFile,
                   activeTab, completedEditCrop, completedCrop, isMasking, imgPending,
                   promptHistory>>

\* onLoad of the <img> of the current image: sizing the canvas clears it
ImgOnLoad ==
    /\ KeepView
    /\ SingleEditorShown
    /\ imgPending
    /\ imgPending' = FALSE
    /\ maskDrawn' = (maskDrawn /\ ~(isMasking /\ CanvasMounted))
    /\ Observe("none")
    /\ UNCHANGED <<history, historyIndex, batchImages, isCancelling, isLoading,
                   error, ops, run, retries, saved, saveTimer, encoding, nextFile,
                   activeTab, completedEditCrop, completedCrop, isMasking,
                   promptHistory>>

\* ---- the viewport: wheel, zoom buttons, pan ------------------------------------
\* e.deltaY of a wheel event
WheelDeltas == {-1000, 500, 3000}

\* the pointer, in px from the top-left corner of the viewport
Cursors == {<<100, 100>>, <<40, 0>>}

\* the distances of a drag with Space held, in px
Drags == {<<-300, 0>>, <<50, 80>>}

\* mutant: the zoom of a wheel step is not clamped
nextZoomUnclamped(z, zoomFactor) == Times(z, zoomFactor)

\* Math.max(0.1, Math.min(zoom * zoomFactor, 5))
nextZoom(z, zoomFactor) ==
    MathMax(Frac(1, 10), MathMin(Times(z, zoomFactor), Frac(5, 1)))

\* the steps of the view leave the rest of the editor alone
KeepEditor ==
    /\ UNCHANGED <<history, historyIndex, batchImages, isCancelling, isLoading,
                   error, ops, run, retries, saved, saveTimer, encoding, nextFile>>
    /\ UNCHANGED view

\* handleWheel on the viewport
HandleWheel ==
    /\ SingleEditorShown
    /\ gestures < MaxGestures
    /\ \E mouse \in Cursors, deltaY \in WheelDeltas :
           LET mouseX == Frac(mouse[1], 1)
               mouseY == Frac(mouse[2], 1)
               zoomFactor == Minus(One, Times(Frac(deltaY, 1), Frac(1, 1000)))
               next == nextZoom(zoom, zoomFactor)
               imgX == Over(Minus(mouseX, pan[1]), zoom)
               imgY == Over(Minus(mouseY, pan[2]), zoom)
               nextPanX == Minus(mouseX, Times(imgX, next))
               nextPanY == Minus(mouseY, Times(imgY, next))
           IN  /\ zoom' = next
               /\ pan' = <<nextPanX, nextPanY>>
               /\ ObserveApplied([name |-> "handleWheel", mouse |-> <<mouseX, mouseY>>])
    /\ gestures' = gestures + 1
    /\ KeepEditor

\* onZoomIn of ZoomControls
ZoomIn ==
    /\ SingleEditorShown
    /\ gestures < MaxGestures
    /\ zoom' = MathMin(Plus(zoom, Frac(1, 4)), Frac(5, 1))
    /\ gestures' = gestures + 1
    /\ ObserveApplied([name |-> "onZoomIn"])
    /\ UNCHANGED pan
    /\ KeepEditor

\* onZoomOut of ZoomControls
ZoomOut ==
    /\ SingleEditorShown
    /\ gestures < MaxGestures
    /\ zoom' = MathMax(Minus(zoom, Frac(1, 4)), Frac(1, 10))
    /\ gestures' = gestures + 1
    /\ ObserveApplied([name |-> "onZoomOut"])
    /\ UNCHANGED pan
    /\ KeepEditor

\* resetView from the percentage button of ZoomControls or from Alt+V
ResetViewPressed ==
    /\ SingleEditorShown
    /\ resetView
    /\ ObserveApplied([name |-> "resetView"])
    /\ KeepEditor

\* A pan gesture on the viewport, Space held and the primary button pressed.
\* onMouseDown calls handlePanMouseDown and then handleMaskMouseDown, which
\* reads the isPanning of the render before the gesture (false): with masking
\* on it draws its dot, on the pixels of the canvas or beside them.  Then
\* handlePanMouseMove: the pan follows the pointer from where it was at the
\* mouse-down, and handleMaskMouseMove returns at once.
HandlePan ==
    /\ SingleEditorShown
    /\ gestures < MaxGestures
    /\ \E by \in Drags :
           /\ pan' = <<Plus(pan[1], Frac(by[1], 1)), Plus(pan[2], Frac(by[2], 1))>>
           /\ ObserveApplied([name |-> "handlePanMouseMove",
                              by |-> <<Frac(by[1], 1), Frac(by[2], 1)>>])
    /\ gestures' = gestures + 1
    /\ UNCHANGED zoom
    /\ \E lands \in BOOLEAN :
           maskDrawn' = (maskDrawn \/ (isMasking /\ CanvasMounted /\ lands))
    /\ UNCHANGED <<history, historyIndex, batchImages, isCancelling, isLoading,
                   error, ops, run, retries, saved, saveTimer, encoding, nextFile>>
    /\ UNCHANGED <<activeTab, completedEditCrop, completedCrop, isMasking,
                   imgPending, promptHistory>>

\* the style of the transform container, transformOrigin 'top left':
\* scale(zoom) translate(pan.x px, pan.y px) takes the point p of the image to
\* zoom * (p + pan); the container of an image that fills the viewport lies at
\* the top-left corner of the viewport
Transform(z, pn, p) ==
    <<Times(z, Plus(p[1], pn[1])), Times(z, Plus(p[2], pn[2]))>>

\* the point of the image that the transform shows at the viewport point c
ImagePointAt(z, pn, c) ==
    <<Minus(Over(c[1], z), pn[1]), Minus(Over(c[2], z), pn[2])>>

\* getPointOnImage: the pointer, relative to the viewport, taken to the
\* coordinates of the image and of the mask canvas
getPointOnImage(z, pn, mouse) ==
    <<Over(Minus(mouse[1], pn[1]), z), Over(Minus(mouse[2], pn[2]), z)>>

\* getPointOnImage called for a pointer event on the viewport
GetPointOnImage ==
    /\ SingleEditorShown
    /\ \E mouse \in Cursors :
           LET at == <<Frac(mouse[1], 1), Frac(mouse[2], 1)>>
           IN  ObserveApplied([name |-> "getPointOnImage", mouse |-> at,
                               point |-> getPointOnImage(zoom, pan, at)])
    /\ KeepView
    /\ KeepEditor

\* ---- the mask canvas, pixel by pixel -------------------------------------------
\* what drawLine leaves on a pixel is white paint; the pixel is kept as the alpha
\* of that paint: 0 untouched, 255 covered, 128 the antialiased edge of a stroke
Alphas == {0, 128, 255}

\* maskCanvasRef.current is null while the canvas is not rendered
NullCanvas == [mounted |-> FALSE]

\* the width and height the canvas can have: none (an image without layout),
\* or a few pixels
CanvasSizes == {<<0, 2>>, <<2, 1>>, <<3, 2>>}

Canvases ==
    {NullCanvas} \cup
    UNION {[mounted : {TRUE}, width : {wh[1]}, height : {wh[2]},
            data : [1..(wh[1] * wh[2]) -> Alphas]] : wh \in CanvasSizes}

\* the four bytes getImageData gives for a pixel
RGBA(alpha) == IF alpha = 0 THEN <<0, 0, 0, 0>> ELSE <<255, 255, 255, alpha>>

\* isCanvasBlank: no canvas, or getImageData throws for a canvas without
\* pixels, or every Uint32 of the buffer is 0
isCanvasBlank(canvas) ==
    \/ ~canvas.mounted
    \/ canvas.width = 0
    \/ canvas.height = 0
    \/ ~(\E k \in DOMAIN canvas.data : RGBA(canvas.data[k]) # <<0, 0, 0, 0>>)

NoFile == [type |-> "null"]

\* source-over of white paint of the given alpha onto opaque black
OverBlack(alpha) ==
    LET grey == (255 * alpha + 0 * (255 - alpha)) \div 255
    IN  <<grey, grey, grey, 255>>

\* mutant: the canvas is exported as it is, without the black backing
getMaskAsFileNoBacking(canvas) ==
    IF isCanvasBlank(canvas)
      THEN NoFile
      ELSE [type |-> "image/png", width |-> canvas.width, height |-> canvas.height,
            data |-> [k \in DOMAIN canvas.data |-> RGBA(canvas.data[k])]]

\* getMaskAsFile: null for no canvas or a blank one; otherwise a canvas of the
\* same size filled with black, the mask canvas drawn on top, as a PNG
getMaskAsFile(canvas) ==
    IF isCanvasBlank(canvas)
      THEN NoFile
      ELSE [type |-> "image/png", width |-> canvas.width, height |-> canvas.height,
            data |-> [k \in DOMAIN canvas.data |-> OverBlack(canvas.data[k])]]

\* getMaskAsFile called on the mask canvas as it is at a submission
GetMaskAsFile ==
    /\ \E canvas \in Canvases :
           ObserveApplied([name |-> "getMaskAsFile", canvas |-> canvas,
                           file |-> getMaskAsFile(canvas)])
    /\ KeepView
    /\ KeepEditor

\* ---- the prompt list of one panel ----------------------------------------------
\* the three lists are instances of one hook; the calls are made on the edit list
\* the wordings that are in the list, by their number
Typed(list) == {n \in 1..MaxTyped : \E i \in DOMAIN list : list[i].text = ToString(n)}

\* the wordings the user types a second time, now with capitals
Retyped == {1, 3}

\* what addPrompt is called with: a wording not typed before (with or without
\* blanks around it), one of the list typed again with capitals, or blanks only
PromptInputs(list) ==
    LET typed == Typed(list)
        fresh == IF typed = {} THEN 1
                 ELSE 1 + CHOOSE n \in typed : \A m \in typed : m <= n
    IN  {Prompt(ToString(n), FALSE, padded) :
             n \in {fresh} \cap (1..MaxTyped), padded \in BOOLEAN}
        \cup {Prompt(ToString(n), TRUE, TRUE) :
             n \in {m \in Retyped :
                        \E i \in DOMAIN list : list[i] = Prompt(ToString(m), FALSE, FALSE)}}
        \cup {Prompt("", FALSE, padded) : padded \in BOOLEAN}

\* addPrompt of the hook, called with a prompt
AddPrompt ==
    /\ \E prompt \in PromptInputs(promptHistory.edit) :
        /\ AddPromptTo("edit", prompt)
        /\ ObserveApplied([name |-> "addPrompt", prompt |-> prompt])
    /\ KeepView
    /\ UNCHANGED <<history, historyIndex, batchImages, isCancelling, isLoading,
                   error, ops, run, retries, saved, saveTimer, encoding, nextFile>>
    /\ UNCHANGED <<activeTab, completedEditCrop, completedCrop, isMasking,
                   maskDrawn, imgPending>>

\* clearHistory of the hook (the Clear button of the list)
ClearHistory ==
    /\ promptHistory' = [promptHistory EXCEPT !.edit = <<>>]
    /\ ObserveApplied([name |-> "clearHistory"])
    /\ KeepView
    /\ UNCHANGED <<history, historyIndex, batchImages, isCancelling, isLoading,
                   error, ops, run, retries, saved, saveTimer, encoding, nextFile>>
    /\ UNCHANGED <<activeTab, completedEditCrop, completedCrop, isMasking,
                   maskDrawn, imgPending>>

\* where the entry q stands in the list
Position(list, q) == CHOOSE i \in DOMAIN list : list[i] = q

\* ---- selections and the pixels of the image -----------------------------------
\* Math.round: the nearest integer, halves upwards
MathRound(a) == (2 * a[1] + a[2]) \div (2 * a[2])

\* the <img> of the current image: the size of the file (naturalWidth,
\* naturalHeight) and the size it is laid out at (width, height)
Layouts ==
    {[naturalWidth |-> 100, naturalHeight |-> 80, width |-> 100, height |-> 80],
     [naturalWidth |-> 200, naturalHeight |-> 160, width |-> 100, height |-> 80],
     [naturalWidth |-> 400, naturalHeight |-> 240, width |-> 100, height |-> 60]}

\* a PixelCrop that ReactCrop completes: px of the image as laid out
PixelCrops ==
    {[x |-> Frac(x, 1), y |-> Frac(y, 1), width |-> Frac(w, 1), height |-> Frac(h, 1)] :
        x \in {0, 10, 25}, y \in {0, 20}, w \in {10, 50}, h \in {10, 40}}

\* the bounding box generateEditedImage writes into the prompt
BoundingBox(crop) ==
    [x |-> MathRound(crop.x), y |-> MathRound(crop.y),
     width |-> MathRound(crop.width), height |-> MathRound(crop.height)]

\* the source rectangle of the drawImage of handleApplyCrop
CropSource(image, crop) ==
    LET scaleX == Frac(image.naturalWidth, image.width)
        scaleY == Frac(image.naturalHeight, image.height)
    IN  [x |-> Times(crop.x, scaleX), y |-> Times(crop.y, scaleY),
         width |-> Times(crop.width, scaleX), height |-> Times(crop.height, scaleY)]

\* handleGenerate hands completedEditCrop to generateEditedImage
GenerateEditedImage ==
    /\ \E image \in Layouts, crop \in PixelCrops :
           ObserveApplied([name |-> "generateEditedImage", image |-> image,
                           crop |-> crop, box |-> BoundingBox(crop)])
    /\ KeepView
    /\ KeepEditor

\* handleApplyCrop draws the selected part of the image
DrawCroppedImage ==
    /\ \E image \in Layouts, crop \in PixelCrops :
           ObserveApplied([name |-> "handleApplyCrop", image |-> image,
                           crop |-> crop, source |-> CropSource(image, crop)])
    /\ KeepView
    /\ KeepEditor

\* ---- the canvas of an uncrop ---------------------------------------------------
MAX_DIMENSION == 2048

\* the aspect ratios of UncropPanel: 16:9, 4:3, 1:1, 3:2
AspectRatios == {Frac(16, 9), Frac(4, 3), Frac(1, 1), Frac(3, 2)}

\* naturalWidth and naturalHeight of the current image
Originals ==
    {[width |-> w, height |-> h] :
        w \in {400, 640, 1000, 2000, 3000, 4096}, h \in {300, 1000, 1500, 2048, 3000}}

\* the dimensions handleApplyUncrop asks for: one side of the image is kept,
\* the other one grows to the aspect ratio
ExpandedSize(original, aspectRatio) ==
    LET originalAspect == Frac(original.width, original.height)
    IN  IF Less(originalAspect, aspectRatio)
          THEN [width |-> MathRound(Times(Frac(original.height, 1), aspectRatio)),
                height |-> original.height]
          ELSE [width |-> original.width,
                height |-> MathRound(Over(Frac(original.width, 1), aspectRatio))]

\* the limit of MAX_DIMENSION on either side, both sides scaled alike
LimitedSize(target) ==
    IF target.width > MAX_DIMENSION \/ target.height > MAX_DIMENSION
      THEN LET scale == MathMin(Frac(MAX_DIMENSION, target.width),
                                Frac(MAX_DIMENSION, target.height))
           IN  [width |-> MathRound(Times(Frac(target.width, 1), scale)),
                height |-> MathRound(Times(Frac(target.height, 1), scale))]
      ELSE target

\* generateUncroppedImage draws the image, at its own size, at this point of
\* the canvas
PaddingOffset(original, target) ==
    [x |-> Frac(target.width - original.width, 2),
     y |-> Frac(target.height - original.height, 2)]

\* img.onload of handleApplyUncrop up to the canvas generateUncroppedImage pads
PadForUncrop ==
    /\ \E original \in Originals, aspectRatio \in AspectRatios :
           LET target == LimitedSize(ExpandedSize(original, aspectRatio))
           IN  ObserveApplied([name |-> "generateUncroppedImage", original |-> original,
                               aspectRatio |-> aspectRatio, target |-> target,
                               offset |-> PaddingOffset(original, target)])
    /\ KeepView
    /\ KeepEditor

\* ---- specifications -------------------------------------------------------
\* the single-image editor: history, overlapping operations, no persistence
Next ==
    \/ HandleImageUpload
    \/ HandleTabChange
    \/ EditCropComplete
    \/ CropComplete
    \/ HandleUndo
    \/ HandleRedo
    \/ HandleReset
    \/ HandleUploadNew
    \/ HandleGenerate
    \/ HandleApplyFilter
    \/ HandleApplyAdjustment
    \/ HandleApplyCrop
    \/ HandleApplyUncrop
    \/ UncropOnLoad
    \/ UncropOnError
    \/ OpSucceed
    \/ OpFail

Spec == Init /\ [][Next]_vars

\* the history of the editor under the operations that need no prompt: the
\* synchronous crop and the uncrop, whose request starts after an image load
NextHistory ==
    \/ HandleImageUpload
    \/ HandleTabChange
    \/ CropComplete
    \/ HandleUndo
    \/ HandleRedo
    \/ HandleReset
    \/ HandleUploadNew
    \/ HandleApplyCrop
    \/ HandleApplyUncrop
    \/ UncropOnLoad
    \/ UncropOnError
    \/ OpSucceed
    \/ OpFail

SpecHistory == Init /\ [][NextHistory]_vars

\* the editor across page loads: history, one operation at a time, the
\* auto-saved session and its restoration
NextSession ==
    \/ HandleImageUpload
    \/ EditCropComplete
    \/ HandleUndo
    \/ HandleRedo
    \/ HandleReset
    \/ HandleUploadNew
    \/ HandleGenerate
    \/ OpSucceed
    \/ OpFail
    \/ AutoSaveRemove
    \/ AutoSaveBegin
    \/ AutoSaveWrite
    \/ AutoSaveFail
    \/ RestoreSession
    \/ DeclineRestore

SpecSession == Init /\ [][NextSession]_vars

\* the batch pipeline, entered from the start screen, possibly while
\* single-image operations are still in flight
NextBatch ==
    \/ HandleImageUpload
    \/ HandleTabChange
    \/ HandleFileSelect
    \/ HandleUploadNew
    \/ HandleApplyUncrop
    \/ UncropOnLoad
    \/ OpSucceed
    \/ OpFail
    \/ HandleBatchApplyNothing
    \/ HandleBatchApply
    \/ BatchItemDone
    \/ BatchItemFail
    \/ HandleRetryNoPrompt
    \/ HandleRetryImage
    \/ RetryDone
    \/ RetryFail
    \/ HandleCancelBatch

SpecBatch == Init /\ [][NextBatch]_vars

\* the batch pipeline on its own: one run at a time, with retries, cancel,
\* start-over and a new selection around it
NextPipeline ==
    \/ HandleFileSelect
    \/ HandleTabChange
    \/ HandleUploadNew
    \/ HandleBatchApplyNothing
    \/ HandleBatchApply
    \/ BatchItemDone
    \/ BatchItemFail
    \/ HandleRetryNoPrompt
    \/ HandleRetryImage
    \/ RetryDone
    \/ RetryFail
    \/ HandleCancelBatch

SpecPipeline == Init /\ [][NextPipeline]_vars

\* the runs of the batch pipeline when every call of the external operation
\* returns: the call a run awaits, and the call a retry awaits, resolves or
\* rejects sooner or later
NextRuns ==
    \/ HandleFileSelect
    \/ HandleUploadNew
    \/ HandleBatchApply
    \/ BatchItemDone
    \/ BatchItemFail
    \/ HandleRetryImage
    \/ RetryDone
    \/ RetryFail
    \/ HandleCancelBatch

SpecRuns ==
    /\ Init
    /\ [][NextRuns]_vars
    /\ WF_vars(BatchItemDone \/ BatchItemFail)
    /\ WF_vars(RetryDone \/ RetryFail)

\* cancellation and the runs it can meet: the Cancel button shows while the
\* loading flag is up, which an edit that was submitted before the files were
\* selected raises as well
NextCancel ==
    \/ HandleImageUpload
    \/ EditCropComplete
    \/ HandleGenerate
    \/ OpFail
    \/ HandleUploadNew
    \/ HandleFileSelect
    \/ HandleBatchApply
    \/ BatchItemDone
    \/ BatchItemFail
    \/ HandleCancelBatch

SpecCancel == Init /\ [][NextCancel]_vars

\* the two modes of the editor: an image with its history, or the files of a
\* batch, with an edit that can return after the mode was left
NextModes ==
    \/ HandleImageUpload
    \/ EditCropComplete
    \/ HandleGenerate
    \/ OpSucceed
    \/ OpSucceedLate
    \/ OpFail
    \/ HandleUndo
    \/ HandleUploadNew
    \/ HandleFileSelect

SpecModes == Init /\ [][NextModes]_vars

\* the external calls of the editor and of the batch pipeline, each in a
\* session of its own: started, resolved and rejected
NextCalls ==
    \/ HandleImageUpload
    \/ HandleTabChange
    \/ EditCropComplete
    \/ HandleFileSelect
    \/ HandleGenerate
    \/ HandleApplyFilter
    \/ HandleApplyAdjustment
    \/ HandleApplyUncrop
    \/ UncropOnLoad
    \/ OpSucceed
    \/ OpFail
    \/ HandleBatchApply
    \/ BatchItemDone
    \/ BatchItemFail
    \/ HandleRetryImage
    \/ RetryDone
    \/ RetryFail
    \/ HandleCancelBatch

SpecCalls == Init /\ [][NextCalls]_vars

\* one image in the single-image editor: tabs, selections, the mask and the
\* operations that read them
NextEditor ==
    \/ HandleImageUpload
    \/ HandleTabChange
    \/ EditCropComplete
    \/ CropComplete
    \/ HandleToggleMasking
    \/ MaskStroke
    \/ HandleClearMask
    \/ ImgOnLoad
    \/ HandleGenerate
    \/ HandleApplyFilter
    \/ HandleApplyAdjustment
    \/ HandleApplyMaskMissing
    \/ HandleApplyCrop
    \/ HandleApplyUncrop
    \/ UncropOnLoad
    \/ OpSucceed
    \/ OpFail
    \/ HandleUndo
    \/ HandleUploadNew

SpecEditor == Init /\ [][NextEditor]_vars

\* masked filters and adjustments: the switch, the strokes and the operations
\* that send the mask
NextMask ==
    \/ HandleImageUpload
    \/ HandleTabChange
    \/ HandleToggleMasking
    \/ MaskStroke
    \/ HandleClearMask
    \/ ImgOnLoad
    \/ HandleApplyFilter
    \/ HandleApplyAdjustment
    \/ HandleApplyMaskMissing
    \/ OpSucceed
    \/ OpFail
    \/ HandleUndo
    \/ HandleUploadNew

SpecMask == Init /\ [][NextMask]_vars

\* the pointer on the viewport: strokes on the mask and pan gestures, with
\* the switches that show and hide the mask canvas
NextPointer ==
    \/ HandleImageUpload
    \/ HandleTabChange
    \/ HandleToggleMasking
    \/ MaskStroke
    \/ HandlePan
    \/ HandleUploadNew

SpecPointer == Init /\ [][NextPointer]_vars

\* the pointer taken to the image under the zoom and the pan of the view
NextPoint ==
    \/ HandleImageUpload
    \/ HandleWheel
    \/ ZoomIn
    \/ ZoomOut
    \/ HandlePan
    \/ GetPointOnImage
    \/ HandleUploadNew

SpecPoint == Init /\ [][NextPoint]_vars

\* the tab and the masking switch, with the handlers that set the tab
NextTabs ==
    \/ HandleImageUpload
    \/ HandleFileSelect
    \/ HandleTabChange
    \/ HandleToggleMasking
    \/ MaskStroke
    \/ PromptToTry
    \/ HandleUploadNew

SpecTabs == Init /\ [][NextTabs]_vars

\* the view of the single image: wheel, zoom buttons, pan, and the handlers
\* that reset it
NextView ==
    \/ HandleImageUpload
    \/ HandleWheel
    \/ ZoomIn
    \/ ZoomOut
    \/ ResetViewPressed
    \/ HandlePan
    \/ HandleUndo
    \/ HandleUploadNew

SpecView == Init /\ [][NextView]_vars

\* the export of the mask canvas, over the canvases it can be called on
NextExport ==
    \/ GetMaskAsFile

SpecExport == Init /\ [][NextExport]_vars

\* the calls on the prompt list of a panel
NextPrompts ==
    \/ AddPrompt
    \/ ClearHistory

SpecPrompts == Init /\ [][NextPrompts]_vars

\* what the two selections are turned into
NextSelection ==
    \/ GenerateEditedImage
    \/ DrawCroppedImage

SpecSelection == Init /\ [][NextSelection]_vars

\* the handlers called without a prompt or without an image, around the
\* editors that leave such a call possible
NextGuards ==
    \/ HandleImageUpload
    \/ HandleTabChange
    \/ CropComplete
    \/ HandleUploadNew
    \/ HandleFileSelect
    \/ HandleBatchApply
    \/ BatchItemDone
    \/ BatchItemFail
    \/ HandleRetryNoPrompt
    \/ HandleApplyNoImage
    \/ HandleApplyCropNoImage

SpecGuards == Init /\ [][NextGuards]_vars

\* the size of the canvas of an uncrop, over image sizes and aspect ratios
NextUncrop ==
    \/ PadForUncrop

SpecUncrop == Init /\ [][NextUncrop]_vars

\* everything the program itself holds (the observers left out)
progVars == <<history, historyIndex, batchImages, isCancelling, isLoading, error,
              ops, run, retries, saved, saveTimer, encoding, nextFile, view,
              zoom, pan>>

-----------------------------------------------------------------------------
\* C1: the history list is empty exactly when the cursor is -1, and
\* otherwise the cursor is an index of the list, in every state reached by
\* upload, commit, undo, redo, reset, start-over and session restore,
\* results of operations that arrive late included.
C1_CursorWithinHistory ==
    /\ (Len(history) = 0) <=> (historyIndex = -1)
    /\ Len(history) > 0 => (0 <= historyIndex /\ historyIndex < Len(history))

\* a restored session whose cursor is not on the newest snapshot
C1_RestoredUndoneSession ==
    /\ lastCall = "restoreSession"
    /\ Len(history) >= 2
    /\ historyIndex = 0

\* C2: right after any commit through addImageToHistory the cursor is the
\* last index, the committed snapshot is the current image and redo is not
\* available; a commit made after an undo leaves nothing to redo.
C2_CommitMovesToEnd ==
    [][lastCall' = "addImageToHistory" =>
          /\ historyIndex' = Len(history') - 1
          /\ history'[Len(history')] = nextFile
          /\ currentImage' = nextFile
          /\ ~canRedo']_vars

\* a commit made after an undo: the second snapshot was dropped
C2_CommitAfterUndo ==
    /\ lastCall = "addImageToHistory"
    /\ history = <<1, 3>>
    /\ historyIndex = 1

\* C3: handleUndo called with the cursor at 0 (or with no history) and
\* handleRedo called with the cursor at the last index change nothing the
\* program holds, so the list, the cursor and the current snapshot stay as
\* they were however often the call is repeated.
C3_UndoRedoAtEndsAreNoOps ==
    [][/\ (lastCall' = "handleUndo" /\ historyIndex <= 0) => UNCHANGED progVars
       /\ (lastCall' = "handleRedo" /\ historyIndex >= Len(history) - 1)
              => UNCHANGED progVars]_vars

\* undo called at cursor 0 and then redo called at the last index
C3_UndoThenRedoAtTheEnds ==
    /\ lastCall = "handleRedo"
    /\ undoFrom = 0
    /\ callIndex = Len(history) - 1
    /\ Len(history) >= 1

\* C4 as stated: handleUndo directly followed by handleRedo ends on the
\* cursor, and so the snapshot, the pair started from, whatever that state was.
C4_UndoRedoRestoresAlways ==
    (lastCall = "handleRedo" /\ undoFrom # NoPair) => historyIndex = undoFrom

\* C4 amended: handleUndo directly followed by handleRedo, started where
\* undo is available (cursor > 0), ends on the cursor and the snapshot it
\* started from, and neither call changes the list.
C4_UndoRedoRestoresWhenUndoable ==
    /\ [](  (lastCall = "handleRedo" /\ undoFrom > 0)
             => (historyIndex = undoFrom /\ currentImage = history[undoFrom + 1]))
    /\ [][lastCall' \in {"handleUndo", "handleRedo"} => history' = history]_vars

\* the pair was run from the newest of three snapshots
C4_PairFromLastOfThree ==
    /\ lastCall = "handleRedo"
    /\ undoFrom = 2
    /\ Len(history) = 3

\* C5: a commit makes the list the entries 0..cursor of the list as it
\* stands when the commit happens, followed by the new snapshot, also when
\* undo, redo or another commit ran while the operation was in flight.
C5_CommitTruncatesLiveList ==
    [][lastCall' = "addImageToHistory" =>
          history' = Append(Slice(history, historyIndex), nextFile)]_vars

\* C6: while the history is not empty, no step other than a start-over or
\* an upload changes the snapshot at index 0.
C6_OriginalNeverChanges ==
    [][(/\ Len(history) > 0
        /\ lastCall' \notin {"handleUploadNew", "handleImageUpload",
                             "handleFileSelect"})
          => (Len(history') > 0 /\ history'[1] = history[1])]_vars

\* C7: a start-over leaves the history empty with the cursor at -1, and an
\* empty history stays empty until an upload or a session restore, also
\* when an operation started earlier completes afterwards.
C7_StartOverStaysEmpty ==
    [][/\ lastCall' = "handleUploadNew"
            => (history' = <<>> /\ historyIndex' = -1)
       /\ (/\ history = <<>>
           /\ historyIndex = -1
           /\ lastCall' \notin {"handleImageUpload", "restoreSession"})
            => (history' = <<>> /\ historyIndex' = -1)]_vars

\* C8: handleReset on a non-empty history puts the cursor on 0 and leaves
\* the list as it is, so every later snapshot can be redone; on an empty
\* history it changes nothing.
C8_ResetKeepsList ==
    [][lastCall' = "handleReset" =>
          /\ history' = history
          /\ Len(history) > 0 => historyIndex' = 0
          /\ Len(history) > 1 => canRedo'
          /\ Len(history) = 0 => UNCHANGED progVars]_vars

\* reset called on the newest of three snapshots
C8_ResetFromLastOfThree ==
    /\ lastCall = "handleReset"
    /\ callIndex = 2
    /\ historyIndex = 0
    /\ Len(history) = 3

\* C9: at most one batch item is processing, and at most one service call
\* for the batch is in flight, whatever the interleaving of a run, retries
\* and a cancel request.
C9_AtMostOneProcessing ==
    /\ Cardinality({k \in DOMAIN batchImages :
                       batchImages[k].status = "processing"}) <= 1
    /\ BagCardinality(run) + BagCardinality(retries) <= 1

\* C10: once cancellation was requested while a run awaited item k, that
\* run starts no further item; the request itself changes no item; and when
\* the call for item k returns, the item is recorded as done or error.
C10_CancelStopsAfterCurrentItem ==
    /\ [](\A r \in BagToSet(run) : r.cancelAt # 0 => r.pos = r.cancelAt)
    /\ [][(~isCancelling /\ isCancelling') => batchImages' = batchImages]_vars
    /\ [][\A r \in BagToSet(run) :
             (r.cancelAt # 0 /\ run' # run) =>
                \A k \in DOMAIN batchImages :
                   (/\ batchImages[k].id = r.items[r.pos]
                    /\ k \in DOMAIN batchImages'
                    /\ batchImages'[k] # batchImages[k])
                      => batchImages'[k].status \in {"done", "error"}]_vars

-----------------------------------------------------------------------------
\* the ids of a batch, in array order
IdsOf(items) == [k \in DOMAIN items |-> items[k].id]

\* the run r resumed in this step and went on to its next item
Advanced(r) == run' = Suspend(Resume(run, r), [r EXCEPT !.pos = r.pos + 1])

\* the run r resumed in this step and left its loop
Ended(r) == run' = Resume(run, r)

\* C11: the status of a batch item moves only pending -> processing,
\* error -> processing, processing -> done or processing -> error; a done
\* item keeps its status while the batch exists.
C11_StatusLifecycle ==
    [][\A k \in DOMAIN batchImages :
          (k \in DOMAIN batchImages' /\ batchImages'[k].id = batchImages[k].id)
             => \/ batchImages'[k].status = batchImages[k].status
                \/ <<batchImages[k].status, batchImages'[k].status>> \in
                      {<<"pending", "processing">>, <<"error", "processing">>,
                       <<"processing", "done">>, <<"processing", "error">>}]_vars

\* C12: a retry starts only for an item whose status is error; no call is
\* started for a pending or processing item, and the start of a retry leaves
\* every other item as it was.
C12_RetryOnlyFromError ==
    [][BagCardinality(retries') > BagCardinality(retries) =>
          \E k \in DOMAIN batchImages :
             /\ batchImages[k].status = "error"
             /\ retries' = Suspend(retries, batchImages[k].id)
             /\ batchImages'[k].status = "processing"
             /\ \A j \in DOMAIN batchImages :
                   batchImages[j].id # batchImages[k].id
                      => batchImages'[j] = batchImages[j]]_vars

\* a retry is in flight while a run is processing another item
C12_RetryBesideRun ==
    /\ BagCardinality(retries) = 1
    /\ \E k \in DOMAIN batchImages :
          /\ batchImages[k].status = "processing"
          /\ ~BagIn(batchImages[k].id, retries)

\* C13: when the call for the item of a run is rejected with message m, that
\* item becomes error with m, the run starts its next selected item unless
\* it was the last or cancellation is requested, and no other item changes.
C13_FailureDoesNotAbort ==
    [][(lastFailure' # "none" /\ run' # run) =>
          \E r \in BagToSet(run) :
             LET more == r.pos < Len(r.items) /\ ~isCancelling
             IN  /\ IF more THEN Advanced(r) ELSE Ended(r)
                 /\ DOMAIN batchImages' = DOMAIN batchImages
                 /\ \A k \in DOMAIN batchImages :
                       batchImages'[k] =
                          IF batchImages[k].id = r.items[r.pos]
                          THEN [batchImages[k] EXCEPT !.status = "error",
                                                      !.error = lastFailure']
                          ELSE IF more /\ batchImages[k].id = r.items[r.pos + 1]
                          THEN [batchImages[k] EXCEPT !.status = "processing"]
                          ELSE batchImages[k]]_vars

\* the first item of a run failed and the run is processing the second
C13_RunWentOnAfterFailure ==
    /\ lastFailure # "none"
    /\ \E r \in BagToSet(run) :
          /\ r.pos = 2
          /\ \E k, j \in DOMAIN batchImages :
                /\ batchImages[k].id = r.items[1]
                /\ batchImages[k].status = "error"
                /\ batchImages[j].id = r.items[2]
                /\ batchImages[j].status = "processing"

\* the indices of the items of the batch with this id
PlacesOf(id) == {k \in DOMAIN batchImages : batchImages[k].id = id}

\* C14: a run takes its selected items in the order of the batch array: the
\* first is marked processing when the run starts, and each later one in the
\* very step in which the call for the item before it resolved or rejected.
C14_RunFollowsArrayOrder ==
    [][run' # run =>
          /\ \A r \in BagToSet(run') :
                /\ r.pos \in 1..Len(r.items)
                /\ \A i, j \in 1..Len(r.items) :
                      i < j => \A a \in PlacesOf(r.items[i])', b \in PlacesOf(r.items[j])' :
                                  a < b
                /\ \A i \in 1..(r.pos - 1) : \A a \in PlacesOf(r.items[i])' :
                      batchImages'[a].status # "pending"
          /\ \A k \in DOMAIN batchImages' :
                (/\ k \in DOMAIN batchImages
                 /\ batchImages[k].status # "processing"
                 /\ batchImages'[k].status = "processing")
                   => \/ \E r \in BagToSet(run') :
                            /\ r.pos = 1
                            /\ r.items[1] = batchImages'[k].id
                            /\ run' = Suspend(run, r)
                      \/ \E r \in BagToSet(run) :
                            /\ Advanced(r)
                            /\ r.items[r.pos + 1] = batchImages'[k].id
                            /\ \A a \in PlacesOf(r.items[r.pos])' :
                                  batchImages'[a].status \in {"done", "error"}]_vars

\* a run has finished its first item and is processing its second, which
\* comes later in the array
C14_SecondItemAfterFirst ==
    \E r \in BagToSet(run) :
       /\ r.pos = 2
       /\ \E a, b \in DOMAIN batchImages :
             /\ a < b
             /\ batchImages[a].id = r.items[1]
             /\ batchImages[a].status \in {"done", "error"}
             /\ batchImages[b].id = r.items[2]
             /\ batchImages[b].status = "processing"

\* the call of a single-image operation was rejected in this step
OpRejected == lastFailure' # "none" /\ ops' # ops

\* the call for an item of the batch, of a run or of a retry, was rejected in
\* this step, and the item is recorded as failed with the caught message
ItemRejectionRecorded ==
    (lastFailure' # "none" /\ ops' = ops) =>
        \E id \in {r.items[r.pos] : r \in BagToSet(run)} \cup BagToSet(retries) :
           /\ \/ \E r \in BagToSet(run) : r.items[r.pos] = id /\ run' # run
              \/ retries' = Resume(retries, id)
           /\ \A a \in PlacesOf(id) :
                 /\ batchImages'[a].status = "error"
                 /\ batchImages'[a].error = lastFailure'

\* C16 as stated: the message m of a rejected call is recorded exactly as m, in
\* the failed batch item and, for a single-image operation, in the error state.
C16_RecordedVerbatim ==
    [][/\ ItemRejectionRecorded
       /\ OpRejected => error' = <<lastFailure'>>]_vars

\* C16: the message m of a rejected call is recorded exactly as m in the
\* failed batch item; the single-image error state holds the sentence naming
\* the failed operation followed by m.
C16_RecordedAfterPrefix ==
    [][/\ ItemRejectionRecorded
       /\ OpRejected =>
             /\ Len(error') = 2
             /\ error'[1] \in {FailurePrefix(kind) :
                                 kind \in {"edit", "filter", "adjust", "uncrop"}}
             /\ error'[2] = lastFailure']_vars

\* the call of a filter on a single image was just rejected
C16_FilterRejected ==
    /\ lastFailure = "request blocked"
    /\ ops = EmptyBag
    /\ ~isLoading
    /\ error = <<FailurePrefix("filter"), "request blocked">>

\* C17: no step of a batch run or of a retry changes the history list or
\* its cursor.
C17_BatchLeavesHistory ==
    [][(run' # run \/ retries' # retries) => UNCHANGED <<history, historyIndex>>]_vars

\* a run has completed every item of the batch and has ended
C17_BatchCompleted ==
    /\ isBatchMode
    /\ run = EmptyBag
    /\ \A k \in DOMAIN batchImages : batchImages[k].status = "done"
    /\ history = <<>>
    /\ historyIndex = -1

\* imagesDone + imagesErrored of the batch header
Progress(items) ==
    Cardinality({k \in DOMAIN items : items[k].status = "done"})
       + Cardinality({k \in DOMAIN items : items[k].status = "error"})

\* C18: while a run is in progress on a batch, the number of its items that
\* are done or error does not decrease.
C18_ProgressNeverDecreases ==
    [][(run # EmptyBag /\ IdsOf(batchImages') = IdsOf(batchImages))
          => Progress(batchImages') >= Progress(batchImages)]_vars

\* C15: a batch apply with a non-blank prompt that finds no pending and no
\* failed item changes nothing: no item, not the loading flag, the error, the
\* cancellation flag or a prompt list, and it starts no call.
C15_NothingToProcessNoEffect ==
    [][(lastCall' = "handleBatchApply" /\ Len(imagesToProcess) = 0)
          => UNCHANGED progVars]_vars

\* Apply was pressed on a batch whose items are all done, on the tab whose
\* prompt list is still empty
C15_ApplyOnFinishedBatch ==
    /\ lastCall = "handleBatchApply"
    /\ run = EmptyBag
    /\ ~isLoading
    /\ \A k \in DOMAIN batchImages : batchImages[k].status = "done"
    /\ promptHistory[BatchType] = <<>>

\* C19: after a fresh upload, with masking switched on in the adjust tab and a
\* stroke drawn, an adjustment that succeeds appends exactly one entry to the
\* history, leaves the mask cleared and makes undo available.
C19_MaskedAdjustmentEndToEnd ==
    [][(/\ resumed' # NoOp
        /\ resumed'.kind = "adjust"
        /\ resumed'.masked
        /\ Len(history) = 1
        /\ resumed'.capHistory = history)
          => /\ Len(history') = 2
             /\ history'[1] = history[1]
             /\ historyIndex' = 1
             /\ (canUndo)'
             /\ ~maskDrawn']_vars

\* a masked adjustment of a fresh upload has just committed
C19_MaskedAdjustmentCommitted ==
    /\ resumed # NoOp
    /\ resumed.kind = "adjust"
    /\ resumed.masked
    /\ resumed.capHistory = <<history[1]>>
    /\ Len(history) = 2
    /\ activeTab = "adjust"
    /\ isMasking
    /\ ~maskDrawn
    /\ canUndo

\* C20: right after any commit the crop selection, the edit selection and the
\* mask are all empty.
C20_CommitInvalidatesSelections ==
    [][lastCall' = "addImageToHistory"
          => /\ ~completedCrop'
             /\ ~completedEditCrop'
             /\ ~maskDrawn']_vars

\* C21: the mask canvas holds no stroke right after masking is switched off,
\* right after the tab changes from adjust or filters to a tab without masking,
\* and right after a filter or adjustment that was called with masking on
\* has committed.
C21_MaskClearedAfter ==
    [][(\/ (isMasking /\ ~isMasking')
        \/ (activeTab \in MaskTabs /\ activeTab' \notin MaskTabs)
        \/ (resumed' # NoOp /\ resumed'.masked))
          => ~maskDrawn']_vars

\* a tab change has just left a masking tab whose canvas held a stroke
C21_LeftMaskTabWithStroke ==
    /\ lastCall = "handleTabChange"
    /\ wasDrawn
    /\ activeTab \notin MaskTabs
    /\ ~isMasking
    /\ ~maskDrawn

\* C22: when a filter or an adjustment of the single image is submitted with
\* masking on and nothing drawn on the mask canvas, an error is reported, no
\* external operation is started, the history and its cursor stay as they were
\* and the loading flag is false afterwards.
C22_BlankMaskReported ==
    [][(/\ lastCall' \in {"handleApplyFilter", "handleApplyAdjustment"}
        /\ isMasking
        /\ ~maskDrawn)
          => /\ error' # <<>>
             /\ ops' = ops
             /\ UNCHANGED <<history, historyIndex>>
             /\ ~isLoading']_vars

\* a filter has just been submitted with masking on and a blank canvas
C22_FilterWithBlankMask ==
    /\ lastCall = "handleApplyFilter"
    /\ activeTab = "filters"
    /\ isMasking
    /\ ~wasDrawn
    /\ ~maskDrawn
    /\ error = <<"Masking is enabled, but no mask has been drawn. Please draw on the image or disable masking.">>
    /\ ops = EmptyBag
    /\ ~isLoading

\* C23: the export of a mask canvas that is missing, without pixels or
\* untouched is no file; the export of a canvas with paint on at least one
\* pixel is a PNG of the width and height of the canvas, every pixel opaque,
\* black exactly where the canvas is untouched and white where a stroke covers
\* the pixel (as light as the paint is dense at the edge of a stroke).
C23_MaskExport ==
    applied.name = "getMaskAsFile" =>
        LET canvas == applied.canvas
            file == applied.file
            touched == IF canvas.mounted
                         THEN {k \in DOMAIN canvas.data : canvas.data[k] # 0}
                         ELSE {}
        IN  IF touched = {}
              THEN file = NoFile
              ELSE /\ file # NoFile
                   /\ file.width = canvas.width
                   /\ file.height = canvas.height
                   /\ DOMAIN file.data = DOMAIN canvas.data
                   /\ \A k \in DOMAIN file.data :
                         /\ file.data[k][4] = 255
                         /\ (k \notin touched) <=> (file.data[k] = <<0, 0, 0, 255>>)
                         /\ canvas.data[k] = 255 => file.data[k] = <<255, 255, 255, 255>>
                         /\ file.data[k][1] = canvas.data[k]
                         /\ file.data[k][2] = canvas.data[k]
                         /\ file.data[k][3] = canvas.data[k]

\* a canvas whose only paint is a single dot has just been exported
C23_SingleDotExported ==
    /\ applied.name = "getMaskAsFile"
    /\ applied.canvas.mounted
    /\ applied.canvas.width = 3
    /\ applied.canvas.height = 2
    /\ Cardinality({k \in DOMAIN applied.canvas.data : applied.canvas.data[k] # 0}) = 1
    /\ applied.canvas.data[5] = 255
    /\ applied.file # NoFile
    /\ applied.file.data[5] = <<255, 255, 255, 255>>
    /\ applied.file.data[1] = <<0, 0, 0, 255>>

\* C28: when the external operation of a localized edit, a filter, an
\* adjustment or an uncrop of the single image is rejected, the history and
\* its cursor stay as they were, the error state holds a message and the
\* loading flag is false.
C28_FailureCaught ==
    [][OpRejected
          => /\ UNCHANGED <<history, historyIndex>>
             /\ error' # <<>>
             /\ ~isLoading']_vars

\* the external operation of an uncrop was just rejected
C28_UncropRejected ==
    /\ lastFailure = "quota exceeded"
    /\ ops = EmptyBag
    /\ history # <<>>
    /\ ~isLoading
    /\ error = <<FailurePrefix("uncrop"), "quota exceeded">>

C30_NoFailureSwallowed ==
    [][lastFailure' # "none"
          => \/ \E i \in DOMAIN error' : error'[i] = lastFailure'
             \/ \E k \in DOMAIN batchImages' :
                   /\ batchImages'[k].status = "error"
                   /\ batchImages'[k].error = lastFailure']_vars

\* C24: after a wheel step at the pointer position c, the point of the image
\* that was shown at c before the step is shown at c again.
C24_ZoomAboutCursor ==
    [][applied'.name = "handleWheel"
          => Transform(zoom', pan', ImagePointAt(zoom, pan, applied'.mouse))
                 = applied'.mouse]_vars

\* C25: the zoom lies between 0.1 and 5 after every step, and a drag moves the
\* pan by the whole distance of the drag.
C25_ZoomClampedPanFree ==
    [][/\ ~Less(zoom', Frac(1, 10))
       /\ ~Less(Frac(5, 1), zoom')
       /\ applied'.name = "handlePanMouseMove"
             => pan' = <<Plus(pan[1], applied'.by[1]), Plus(pan[2], applied'.by[2])>>]_vars

\* a wheel step has just been clamped at 5 and the pan lies beyond the viewport
C25_ClampedAtFive ==
    /\ applied.name = "handleWheel"
    /\ zoom = Frac(5, 1)
    /\ Less(pan[1], Frac(-300, 1))

\* C26: the bounding box sent for a localized edit is the selection in pixels
\* of the file: x and width times naturalWidth / width, y and height times
\* naturalHeight / height, the rectangle the hard crop draws from.
C26_BoxInNativePixels ==
    applied.name = "generateEditedImage" =>
        LET native == CropSource(applied.image, applied.crop)
        IN  /\ Frac(applied.box.x, 1) = native.x
            /\ Frac(applied.box.y, 1) = native.y
            /\ Frac(applied.box.width, 1) = native.width
            /\ Frac(applied.box.height, 1) = native.height

\* C27: the canvas padded for an uncrop is at least as wide and as high as the
\* image, which lies on it whole, for every image size and aspect ratio, the
\* sizes that MAX_DIMENSION limits included.
C27_CanvasHoldsImage ==
    applied.name = "generateUncroppedImage" =>
        /\ applied.target.width >= applied.original.width
        /\ applied.target.height >= applied.original.height
        /\ ~Less(applied.offset.x, Zero)
        /\ ~Less(applied.offset.y, Zero)

\* C31: a prompt list that started empty never has more than 20 entries nor
\* two entries that are equal up to case; addPrompt of a prompt that is not
\* blank puts the trimmed prompt first and keeps the entries that survive in
\* the order they had; addPrompt of a blank prompt leaves the list as it was.
C31_PromptListContract ==
    [][LET before == promptHistory.edit
           after == promptHistory'.edit
       IN  /\ Len(after) <= MAX_HISTORY_SIZE
           /\ \A i, j \in DOMAIN after :
                 i # j => ToLowerCase(after[i]) # ToLowerCase(after[j])
           /\ applied'.name = "addPrompt" =>
                 IF IsBlank(applied'.prompt) THEN after = before
                 ELSE /\ after # <<>>
                      /\ after[1] = Trim(applied'.prompt)
                      /\ \A i \in 2..Len(after) :
                            /\ \E k \in DOMAIN before : before[k] = after[i]
                            /\ i < Len(after) => Position(before, after[i])
                                                     < Position(before, after[i + 1])]_vars

\* a wording of a full list has just been typed again with capitals and blanks
\* around it, and stands first
C31_RetypedInFullList ==
    /\ applied.name = "addPrompt"
    /\ applied.prompt.caps
    /\ applied.prompt.padded
    /\ Len(promptHistory.edit) = MAX_HISTORY_SIZE
    /\ promptHistory.edit[1] = Trim(applied.prompt)
    /\ 1 \notin Typed(promptHistory.edit)

\* C32: while the history is empty (after start-over, before the next upload)
\* there is no saved session record, whatever the auto-save was doing when
\* start-over was called.
C32_NoRecordAfterStartOver ==
    history = <<>> => ~saved.present

C34_HandlesReleased ==
    resumed # NoOp => resumed.urls = 0

\* C35: when every call of the external operation returns, a batch run that
\* is going comes to its end: no run is suspended, the loading flag and the
\* cancellation flag are false, and an item that is still processing is one
\* that a retry, not the run, is waiting for.
C35_RunEnds ==
    (run # EmptyBag)
        ~> (/\ run = EmptyBag
            /\ ~isLoading
            /\ ~isCancelling
            /\ \A k \in DOMAIN batchImages :
                  batchImages[k].status = "processing"
                     => BagIn(batchImages[k].id, retries))

\* a run has ended after a cancellation: an item it handled is done and an
\* item it had selected is still pending
C35_CancelledRunEnded ==
    /\ run = EmptyBag
    /\ ~isLoading
    /\ ~isCancelling
    /\ \E k \in DOMAIN batchImages : batchImages[k].status = "done"
    /\ \E k \in DOMAIN batchImages : batchImages[k].status = "pending"

\* C36: a pan gesture, from its pointer-down on, leaves the mask canvas as it
\* was, also when masking is on.
C36_PanDrawsNothing ==
    [][applied'.name = "handlePanMouseMove" => maskDrawn' = maskDrawn]_vars

\* C37: a batch run that starts lowers the cancellation flag and goes on to
\* its first selected item, whether or not a cancellation had been requested
\* before: the flag is false after the step, the run is suspended on its first
\* item, and that item is processing.
C37_RunStartsAfterCancel ==
    [][applied'.name = "handleBatchApply"
          => /\ ~isCancelling'
             /\ isLoading'
             /\ \E r \in BagToSet(run') :
                   /\ r.items = imagesToProcess
                   /\ r.pos = 1
                   /\ r.cancelAt = 0
                   /\ \E k \in DOMAIN batchImages' :
                         /\ batchImages'[k].id = r.items[1]
                         /\ batchImages'[k].status = "processing"]_vars

\* a run has just started although the cancellation flag was up when Apply
\* was pressed
C37_StartedWithFlagUp ==
    /\ applied.name = "handleBatchApply"
    /\ applied.isCancelling
    /\ run # EmptyBag
    /\ ~isCancelling

\* C38: the list of batch items and the edit history are never both non-empty.
C38_OneModeAtATime ==
    ~(Len(batchImages) > 0 /\ Len(history) > 0)

\* C39: the point of the image that getPointOnImage returns for a pointer
\* position is the point that the transform of the view shows at that
\* position, whatever the zoom and the pan are.
C39_PointerMapsBack ==
    applied.name = "getPointOnImage"
        => Transform(zoom, pan, applied.point) = applied.mouse

\* C40: while masking is switched on the active tab is adjust or filters.
C40_MaskingOnlyOnMaskTabs ==
    isMasking => activeTab \in MaskTabs

====
